---- MODULE Spec2Model ----
(***************************************************************************)
(* State-machine model of the SS7 router (libs/ysig/router.cpp): inbound   *)
(* and outbound MSU paths with their counters, and the MTP restart state   *)
(* machine with its timers; of the SNM management entity (management.cpp): *)
(* changeover and changeback with the pending table; and of the BER        *)
(* INTEGER codec (libs/yasn/asn.cpp).                                      *)
(***************************************************************************)
EXTENDS Integers, Sequences, FiniteSets, TLC

(***************************************************************************)
(* Bounds of the model                                                     *)
(***************************************************************************)
\* total number of receivedMSU / transmitMSU invocations explored
MaxMsu == 2
\* cap of the m_changes generation counter (attach / detach events)
MaxChanges == 6
\* last instant of the millisecond clock
MaxTime == 15000
\* granularity by which the clock advances
TickStep == 2500
\* messages posted to the pending table of the management entity in one run
MaxPosted == 2
\* last instant and granularity of the clock of the management entity
MaxSnmTime == 3200
SnmTickStep == 800

(***************************************************************************)
(* Program constants                                                       *)
(***************************************************************************)
\* restart phase 2 starts this many ms before the restart timer expires
Phase2Lead == 5000
\* isolation timer interval (default of "isolation")
IsolateInterval == 1000
\* values of "starttime": the enforced minimum and the SN default
RestartIntervals == {5000, 10000}
\* values of "testroutes": disabled, or the enforced minimum
RouteTestIntervals == {0, 10000}

\* HandledMSU dispositions
Accepted == "Accepted"
Rejected == "Rejected"
Unequipped == "Unequipped"
Inaccessible == "Inaccessible"
NoAddress == "NoAddress"
Failure == "Failure"
HandledMSU == {Accepted, Rejected, Unequipped, Inaccessible, NoAddress, Failure}

\* SS7Route::State values and the masks used by the router
Prohibited == "Prohibited"
Unknown == "Unknown"
Restricted == "Restricted"
Congestion == "Congestion"
Allowed == "Allowed"
RouteStates == {Prohibited, Unknown, Restricted, Congestion, Allowed}
NotProhibited == RouteStates \ {Prohibited}
AnyState == RouteStates

\* service indicators: management, maintenance (regular and special), a user part
SNM == "SNM"
MTN == "MTN"
MTNS == "MTNS"
ISUP == "ISUP"
Services == {SNM, MTN, MTNS, ISUP}

(***************************************************************************)
(* Environment: networks (Layer 3), user parts (Layer 4), point codes      *)
(***************************************************************************)
Nets == {"n1", "n2"}
NoNet == "none"
L4s == {"mngmt", "u1"}
NoL4 == "none"

\* the router's own local point code (m_local), one family
RouterLocal == 1
\* SS7Layer3::getLocal of each network (0: none configured)
NetLocal(n) == IF n = "n2" THEN 5 ELSE 0
\* destinations used in labels: local ones, routed ones and, for an MSU that
\* did not come from n2, an unrouted one (5)
PointCodes == {1, 2, 4, 5, 6}
\* inbound MSUs: <<DPC, receiving network>>
RxInputs == {<<1, "n1">>, <<5, "n2">>, <<5, "n1">>, <<2, "n2">>, <<4, "n1">>, <<6, "n2">>}
\* outbound MSUs: DPC
TxPointCodes == {2, 4, 5, 6}
\* no route: SS7Layer3::getRoutePriority returns (unsigned int)-1
NoPriority == -1

\* SS7Layer3::getRoutePriority(type,packed) of each network
getRoutePriority(n, pc) ==
    CASE n = "n1" /\ pc = 2 -> 0
      [] n = "n1" /\ pc = 4 -> 100
      [] n = "n1" /\ pc = 6 -> 100
      [] n = "n2" /\ pc = 3 -> 0
      [] n = "n2" /\ pc = 4 -> 200
      [] n = "n3" /\ pc = 4 -> 100
      [] n = "n3" /\ pc = 6 -> 50
      [] n = "n4" /\ pc = 4 -> 0
      [] n = "n4" /\ pc = 6 -> 100
      [] n = "n6" /\ pc = 4 -> 0
      [] OTHER -> NoPriority

VARIABLES
    m_transfer, m_sendUnavail, m_sendProhibited,
    m_layer3, m_layer4, m_mngmt, m_changes,
    m_rxMsu, m_txMsu, m_fwdMsu,
    m_started, m_phase2, m_checkRoutes,
    m_restart, m_isolate, m_routeTest,
    routes, netOper, now,
    rx, tx,
    nRx, nTx, nRouteOk, nRouteFwd, phase2Seen,
    out,
    m_pending, inhibited, nPosted, snm, thr,
    arg, res

cfgVars == <<m_transfer, m_sendUnavail, m_sendProhibited>>
l4Vars == <<m_layer3, m_layer4, m_mngmt, m_changes>>
cntVars == <<m_rxMsu, m_txMsu, m_fwdMsu>>
fsmVars == <<m_started, m_phase2, m_checkRoutes, m_restart, m_isolate, m_routeTest>>
envVars == <<routes, netOper, now>>
ghostVars == <<nRx, nTx, nRouteOk, nRouteFwd, phase2Seen>>
snmVars == <<m_pending, inhibited, nPosted, snm, thr>>
fnVars == <<arg, res>>
routerVars == <<cfgVars, l4Vars, cntVars, fsmVars, routes, netOper, rx, tx, ghostVars, out>>
vars == <<cfgVars, l4Vars, cntVars, fsmVars, envVars, rx, tx, ghostVars, out, snmVars, fnVars>>

(***************************************************************************)
(* Sequences                                                               *)
(***************************************************************************)
Range(s) == {s[i] : i \in 1..Len(s)}

IndexOf(s, x) == IF x \in Range(s) THEN CHOOSE i \in 1..Len(s) : s[i] = x ELSE 0

RemoveAt(s, i) == [j \in 1..(Len(s) - 1) |-> IF j < i THEN s[j] ELSE s[j + 1]]

InsertAt(s, i, x) ==
    [j \in 1..(Len(s) + 1) |-> IF j < i THEN s[j] ELSE IF j = i THEN x ELSE s[j - 1]]

\* ListIterator(list,offset): the list's items, starting at index offset
Rotated(s, offset) ==
    [i \in 1..Len(s) |-> s[((i - 1 + offset) % Len(s)) + 1]]

(***************************************************************************)
(* SignallingTimer: an interval and the instant it fires (0: stopped)      *)
(***************************************************************************)
Timer(iv) == [interval |-> iv, timeout |-> 0]

TimerStart(t, when) == IF t.interval # 0 THEN [t EXCEPT !.timeout = when + t.interval] ELSE t

TimerStop(t) == [t EXCEPT !.timeout = 0]

TimerStarted(t) == t.timeout > 0

TimerTimeout(t, when) == TimerStarted(t) /\ t.timeout < when

(***************************************************************************)
(* Routing table: destination -> [priority, state, networks]               *)
(***************************************************************************)
\* the table after both networks were attached, in the order n1, n2; sub is the
\* state of the destination's route in each network's own table
InitRoutes ==
    (2 :> [priority |-> 0, state |-> Unknown, networks |-> <<"n1">>,
           sub |-> [n \in {"n1"} |-> Unknown]]) @@
    (3 :> [priority |-> 0, state |-> Unknown, networks |-> <<"n2">>,
           sub |-> [n \in {"n2"} |-> Unknown]]) @@
    (4 :> [priority |-> 100, state |-> Allowed, networks |-> <<"n1", "n2">>,
           sub |-> [n \in {"n1", "n2"} |-> Allowed]]) @@
    (6 :> [priority |-> 100, state |-> Prohibited, networks |-> <<"n1">>,
           sub |-> [n \in {"n1"} |-> Prohibited]])

NoRoute == 0

\* SS7Layer3::findRoute(type,packed,states): the route if its state is in the mask
findRoute(dpc, states) ==
    IF dpc \in DOMAIN routes /\ routes[dpc].state \in states THEN dpc ELSE NoRoute

\* the route's shift: sls >> shift selects the first network tried
RouteShift == 0

\* SS7Route::transmitMSU: try the networks from index sls >> shift on, until one
\* of them takes the MSU; acc are the networks whose transmitMSU would succeed
SS7Route_transmitMSU(route, sls, source, acc) ==
    LET it == Rotated(routes[route].networks, sls \div (2 ^ RouteShift))
        ok == {i \in 1..Len(it) : it[i] \in acc}
        first == CHOOSE i \in ok : \A j \in ok : i <= j
    IN  IF ok = {}
        THEN [res |-> -1, calls |-> Range(it)]
        ELSE [res |-> sls, calls |-> {it[j] : j \in 1..first}]

\* SS7Router::routeMSU up to the transmission: find the route, hand it the MSU
RouteMSU_transmit(dpc, network, sls, states, acc) ==
    LET route == findRoute(dpc, states)
    IN  IF route = NoRoute
        THEN [res |-> -1, calls |-> {}]
        ELSE SS7Route_transmitMSU(route, sls, network, acc)

\* variant: every routed MSU counts as forwarded
RouteMSU_isForward_always(network) == TRUE

\* SS7Router::routeMSU after a successful transmission: whether fwdMsu counts it
RouteMSU_isForward(network) == network # NoNet

\* variant: no service may use a prohibited route
TransmitStates_noMgmt(sif) == NotProhibited

\* SS7Router::transmitMSU: the route states an MSU of this service may use
TransmitStates(sif) == IF sif \in {SNM, MTN, MTNS} THEN AnyState ELSE NotProhibited

(***************************************************************************)
(* SS7Router::receivedMSU, decisions                                       *)
(***************************************************************************)
\* variant: only Accepted ends the scan
ScanStops_acceptedOnly(handled) == handled = Accepted

\* the user part's answer ends the scan and is returned as it is
ScanStops(handled) == handled \in {Accepted, Failure}

\* variant: the first tentative result is kept
NextRet_keepFirst(ret, handled) == IF ret # Rejected \/ handled = Rejected THEN ret ELSE handled

\* the tentative result after a user part's answer that did not end the scan
NextRet(ret, handled) == IF handled = Rejected THEN ret ELSE handled

\* after the scan: the tentative result decides by itself
RetDecides(ret) == ret \in {Unequipped, Inaccessible}

RetResult(ret) == IF m_sendUnavail THEN ret ELSE Failure

\* variant: the receiving network's local point code is not looked at
IsLocal_routerOnly(dpc, network) == RouterLocal = dpc

\* the DPC is the router's local point code or the receiving network's
IsLocal(dpc, network) ==
    \/ RouterLocal = dpc
    \/ network # NoNet /\ NetLocal(network) = dpc

LocalResult == IF m_sendUnavail THEN Unequipped ELSE Failure

\* variant: the two answers exchanged
NoRouteResult_swapped == IF m_sendProhibited THEN Failure ELSE NoAddress

\* an STP could not forward the MSU
NoRouteResult == IF m_sendProhibited THEN NoAddress ELSE Failure

(***************************************************************************)
(* Threads: one in receivedMSU (rx), one in transmitMSU (tx)               *)
(***************************************************************************)
RxIdle ==
    [pc |-> "idle", dpc |-> 0, src |-> NoNet, idx |-> 0, chg |-> 0, ret |-> Rejected,
     early |-> "none", unav |-> {}, noaddr |-> FALSE, lastNR |-> "none",
     tried |-> FALSE, acc |-> {}, calls |-> {}, slsTx |-> -1, result |-> "none",
     l4 |-> NoL4, offChg |-> 0, offered |-> {},
     locks |-> 0, chg0 |-> 0, times |-> [s \in L4s |-> 0]]

TxIdle ==
    [pc |-> "idle", sif |-> "none", dpc |-> 0, acc |-> {}, calls |-> {}, slsTx |-> -1,
     result |-> -2]

\* the scan, positioned (router locked) on the i-th user part: call it with the
\* lock released, or leave the loop when the list is exhausted and unlock.
\* locks is the number of times the thread holds the router mutex; times counts
\* the calls made to each user part for this MSU (history)
ScanFrom(r, i) ==
    IF i <= Len(m_layer4)
    THEN [r EXCEPT !.pc = "call", !.idx = i, !.chg = m_changes, !.l4 = m_layer4[i],
                   !.locks = @ - 1, !.times[m_layer4[i]] = @ + 1]
    ELSE [r EXCEPT !.pc = "post", !.idx = 0, !.chg = 0, !.locks = @ - 1]

\* what the thread has been answered so far (history, not program state);
\* offered are the user parts called while m_changes had the value offChg
Answered(r, handled) ==
    [r EXCEPT !.early = IF handled \in {Accepted, Failure} THEN handled ELSE @,
              !.unav = IF handled \in {Unequipped, Inaccessible} THEN @ \cup {handled} ELSE @,
              !.noaddr = @ \/ handled = NoAddress,
              !.lastNR = IF handled = Rejected THEN @ ELSE handled,
              !.offChg = r.chg,
              !.offered = IF r.offChg = r.chg THEN @ \cup {r.l4} ELSE {r.l4}]

\* variant: a change of the list during the call goes unnoticed
ListChanged_never(chg) == FALSE

\* variant: the scan is always taken up from the start
ListChanged_always(chg) == TRUE

\* receivedMSU, line 597: the list has changed during the call
ListChanged(chg) == chg # m_changes

\* receivedMSU, entry: count the MSU and start the scan of the user parts
ReceivedMSU_Enter(dpc, network) ==
    /\ rx.pc \in {"idle", "done"}
    /\ nRx + nTx < MaxMsu
    /\ m_rxMsu' = m_rxMsu + 1
    /\ nRx' = nRx + 1
    /\ rx' = ScanFrom([RxIdle EXCEPT !.dpc = dpc, !.src = network, !.locks = 1,
                                     !.chg0 = m_changes], 1)
    /\ UNCHANGED <<snmVars, fnVars, cfgVars, l4Vars, m_txMsu, m_fwdMsu, fsmVars, envVars, tx,
                   nTx, nRouteOk, nRouteFwd, phase2Seen, out>>

\* receivedMSU: the user part called last answers
ReceivedMSU_L4Return(handled) ==
    /\ rx.pc = "call"
    /\ LET r1 == Answered(rx, handled)
           r2 == [r1 EXCEPT !.ret = NextRet(rx.ret, handled)]
       IN  rx' = IF ScanStops(handled)
                 THEN [r1 EXCEPT !.pc = "done", !.result = handled]
                 ELSE LET r3 == [r2 EXCEPT !.locks = @ + 1]
                      IN  IF ListChanged(rx.chg)
                          THEN ScanFrom(r3, 1)
                          ELSE ScanFrom(r3, rx.idx + 1)
    /\ UNCHANGED <<snmVars, fnVars, cfgVars, l4Vars, cntVars, fsmVars, envVars, tx, ghostVars, out>>

\* receivedMSU after the scan, up to the transmission of a forwarded MSU
ReceivedMSU_PostScan(sls, acc) ==
    /\ rx.pc = "post"
    /\ IF RetDecides(rx.ret)
       THEN /\ rx' = [rx EXCEPT !.pc = "done", !.result = RetResult(rx.ret)]
            /\ UNCHANGED <<nRouteOk, nRouteFwd>>
       ELSE IF IsLocal(rx.dpc, rx.src)
       THEN /\ rx' = [rx EXCEPT !.pc = "done", !.result = LocalResult]
            /\ UNCHANGED <<nRouteOk, nRouteFwd>>
       ELSE IF m_transfer
       THEN LET t == RouteMSU_transmit(rx.dpc, rx.src, sls, NotProhibited, acc)
                r == [rx EXCEPT !.tried = TRUE, !.acc = acc, !.calls = t.calls]
            IN  /\ rx' = IF t.res >= 0
                         THEN [r EXCEPT !.pc = "count", !.slsTx = t.res]
                         ELSE [r EXCEPT !.pc = "done", !.result = NoRouteResult]
                /\ nRouteOk' = IF t.res >= 0 THEN nRouteOk + 1 ELSE nRouteOk
                /\ nRouteFwd' = IF t.res >= 0 /\ rx.src # NoNet
                                THEN nRouteFwd + 1 ELSE nRouteFwd
       ELSE /\ rx' = [rx EXCEPT !.pc = "done", !.result = Failure]
            /\ UNCHANGED <<nRouteOk, nRouteFwd>>
    /\ UNCHANGED <<snmVars, fnVars, cfgVars, l4Vars, cntVars, fsmVars, envVars, tx, nRx, nTx, phase2Seen, out>>

\* routeMSU of a forwarded MSU, after the transmission: the counters
ReceivedMSU_Count ==
    /\ rx.pc = "count"
    /\ m_txMsu' = m_txMsu + 1
    /\ m_fwdMsu' = IF RouteMSU_isForward(rx.src) THEN m_fwdMsu + 1 ELSE m_fwdMsu
    /\ rx' = [rx EXCEPT !.pc = "done", !.result = Accepted]
    /\ UNCHANGED <<snmVars, fnVars, cfgVars, l4Vars, m_rxMsu, fsmVars, envVars, tx, ghostVars, out>>

\* transmitMSU, up to the transmission: routeMSU with no source network
TransmitMSU(sif, dpc, sls, acc) ==
    /\ tx.pc \in {"idle", "done"}
    /\ nRx + nTx < MaxMsu
    /\ nTx' = nTx + 1
    /\ LET states == TransmitStates(sif)
           t == RouteMSU_transmit(dpc, NoNet, sls, states, acc)
           r == [TxIdle EXCEPT !.sif = sif, !.dpc = dpc, !.acc = acc,
                               !.calls = t.calls, !.slsTx = t.res]
       IN  /\ tx' = IF t.res >= 0
                    THEN [r EXCEPT !.pc = "count"]
                    ELSE [r EXCEPT !.pc = "done", !.result = t.res]
           /\ nRouteOk' = IF t.res >= 0 THEN nRouteOk + 1 ELSE nRouteOk
    /\ UNCHANGED <<snmVars, fnVars, cfgVars, l4Vars, cntVars, fsmVars, envVars, rx, nRx, nRouteFwd, phase2Seen, out>>

\* routeMSU of a transmitted MSU, after the transmission: the counters
TransmitMSU_Count ==
    /\ tx.pc = "count"
    /\ m_txMsu' = m_txMsu + 1
    /\ m_fwdMsu' = IF RouteMSU_isForward(NoNet) THEN m_fwdMsu + 1 ELSE m_fwdMsu
    /\ tx' = [tx EXCEPT !.pc = "done", !.result = tx.slsTx]
    /\ UNCHANGED <<snmVars, fnVars, cfgVars, l4Vars, m_rxMsu, fsmVars, envVars, rx, ghostVars, out>>

(***************************************************************************)
(* SS7Router::attach / detach of a user part                              *)
(***************************************************************************)
AttachL4(service) ==
    /\ IF service \in Range(m_layer4)
       THEN UNCHANGED <<m_layer4, m_changes>>
       ELSE /\ m_changes < MaxChanges
            /\ m_changes' = m_changes + 1
            /\ m_layer4' = Append(m_layer4, service)
    /\ UNCHANGED <<snmVars, fnVars, cfgVars, m_layer3, m_mngmt, cntVars, fsmVars, envVars, rx, tx,
                   ghostVars, out>>

DetachL4(service) ==
    /\ IF service \in Range(m_layer4)
       THEN /\ m_changes < MaxChanges
            /\ m_changes' = m_changes + 1
            /\ m_layer4' = RemoveAt(m_layer4, IndexOf(m_layer4, service))
            /\ m_mngmt' = IF service = m_mngmt THEN NoL4 ELSE m_mngmt
       ELSE UNCHANGED <<m_layer4, m_changes, m_mngmt>>
    /\ UNCHANGED <<snmVars, fnVars, cfgVars, m_layer3, cntVars, fsmVars, envVars, rx, tx, ghostVars, out>>

(***************************************************************************)
(* What the last operation sent and called: TRA ("restart") controls as    *)
(* <<network, local PC, adjacent PC>>, route advertisements as             *)
(* <<state, network, local PC, adjacent PC, destination>>, route tests,    *)
(* emergency "resume" controls, and the user-part notifications in order;  *)
(* whether checkRoutes went through the table; the destination, its former *)
(* state and whether routeChanged was called by setRouteSpecificState; the  *)
(* calls made with a mutex held, as <<callee, mutex>>; the network notify   *)
(* was called for; the node setRouteSpecificState was called for           *)
(***************************************************************************)
NoOut ==
    [op |-> "none", pre |-> "none", branch |-> "none", ret |-> FALSE,
     tra |-> {}, adv |-> {}, test |-> {}, resume |-> {}, l4 |-> <<>>,
     checked |-> FALSE, dest |-> 0, old |-> "none", called |-> FALSE, held |-> {},
     net |-> NoNet, src |-> 0, oper |-> "none", did |-> "none"]

\* m_testRestricted: restricted routes are not tested
TestRestricted == FALSE

(***************************************************************************)
(* The restart state machine: flags and timers as one value                *)
(***************************************************************************)
Fsm ==
    [started |-> m_started, phase2 |-> m_phase2, checkRoutes |-> m_checkRoutes,
     restart |-> m_restart, isolate |-> m_isolate, routeTest |-> m_routeTest]

SetFsm(f) ==
    /\ m_started' = f.started
    /\ m_phase2' = f.phase2
    /\ m_checkRoutes' = f.checkRoutes
    /\ m_restart' = f.restart
    /\ m_isolate' = f.isolate
    /\ m_routeTest' = f.routeTest

\* the phase a state of the machine is in
FsmPhase(f) ==
    IF TimerStarted(f.isolate) THEN "Isolating"
    ELSE IF f.started THEN "Started"
    ELSE IF f.phase2 THEN "Restarting2"
    ELSE IF TimerStarted(f.restart) THEN "Restarting1"
    ELSE "Disabled"

\* variant: the isolation timer is left running
restart_keepIsolate(f, when) ==
    [f EXCEPT !.phase2 = FALSE, !.started = FALSE, !.checkRoutes = TRUE,
              !.restart = TimerStart(@, when), !.routeTest = TimerStop(@)]

\* variant: the route check is not requested
restart_noCheck(f, when) ==
    [f EXCEPT !.phase2 = FALSE, !.started = FALSE,
              !.isolate = TimerStop(@), !.restart = TimerStart(@, when),
              !.routeTest = TimerStop(@)]

\* variant: the router stays started while it restarts
restart_keepStarted(f, when) ==
    [f EXCEPT !.phase2 = FALSE, !.checkRoutes = TRUE,
              !.isolate = TimerStop(@), !.restart = TimerStart(@, when),
              !.routeTest = TimerStop(@)]

\* SS7Router::restart
restart(f, when) ==
    [f EXCEPT !.phase2 = FALSE, !.started = FALSE, !.checkRoutes = TRUE,
              !.isolate = TimerStop(@), !.restart = TimerStart(@, when),
              !.routeTest = TimerStop(@)]

\* variant: the route check stays requested
disable_keepCheck(f) ==
    [f EXCEPT !.phase2 = FALSE, !.started = FALSE,
              !.isolate = TimerStop(@), !.restart = TimerStop(@),
              !.routeTest = TimerStop(@)]

\* SS7Router::disable
disable(f) ==
    [f EXCEPT !.phase2 = FALSE, !.started = FALSE, !.checkRoutes = FALSE,
              !.isolate = TimerStop(@), !.restart = TimerStop(@),
              !.routeTest = TimerStop(@)]

(***************************************************************************)
(* Routes and what is sent about them                                      *)
(***************************************************************************)
\* SS7Route::operational: one of the route's networks is operational
RouteOperational(r) == \E n \in Range(r.networks) : netOper[n]

\* the destinations of the table, in the table's order (ascending)
RECURSIVE SortedSeq(_)
SortedSeq(S) ==
    IF S = {} THEN <<>>
    ELSE LET m == CHOOSE x \in S : \A y \in S : x <= y
         IN  <<m>> \o SortedSeq(S \ {m})

\* the networks of a list that get a message, with the local address each is
\* sent from: the network's own, else the router's, which serves at most once;
\* ok are the networks that pass the caller's tests, once: stop after the first
RECURSIVE SendVia(_, _, _, _)
SendVia(nets, local, ok, once) ==
    IF nets = <<>> THEN {}
    ELSE LET n == Head(nets)
             netLocal == IF NetLocal(n) # 0 THEN NetLocal(n) ELSE local
         IN  IF n \notin ok \/ netLocal = 0
             THEN SendVia(Tail(nets), local, ok, once)
             ELSE {<<n, netLocal>>} \cup
                  (IF once THEN {}
                   ELSE SendVia(Tail(nets), IF local = netLocal THEN 0 ELSE local, ok, once))

\* variant: the restart is announced to every destination, adjacent or not
sendRestart_allRoutes(rt, network) ==
    IF m_mngmt = NoL4 THEN {}
    ELSE UNION {
        {<<v[1], v[2], d>> :
            v \in SendVia(rt[d].networks, RouterLocal,
                          {n \in Nets : (network = NoNet \/ network = n) /\ netOper[n]},
                          network # NoNet)} :
        d \in DOMAIN rt}

\* SS7Router::sendRestart: TRA to the adjacent nodes, over operational networks
sendRestart(rt, network) ==
    IF m_mngmt = NoL4 THEN {}
    ELSE UNION {
        {<<v[1], v[2], d>> :
            v \in SendVia(rt[d].networks, RouterLocal,
                          {n \in Nets : (network = NoNet \/ network = n) /\ netOper[n]},
                          network # NoNet)} :
        d \in {x \in DOMAIN rt : rt[x].priority = 0}}

\* variant: every state is advertised during the restart
routeChanged_anyPhase(rt, dest, started, phase2) ==
    IF ~(m_transfer /\ (started \/ phase2)) THEN {}
    ELSE IF m_mngmt = NoL4 \/ rt[dest].state = Unknown THEN {}
    ELSE UNION {
        {<<rt[dest].state, v[1], v[2], d, dest>> :
            v \in SendVia(rt[d].networks, RouterLocal,
                          {n \in Nets : netOper[n] /\ n \notin Range(rt[dest].networks)},
                          FALSE)} :
        d \in {x \in DOMAIN rt : x # dest /\ rt[x].priority = 0}}

\* variant: the route's own networks are not left out
routeChanged_noHorizon(rt, dest, started, phase2) ==
    IF ~(m_transfer /\ (started \/ phase2)) THEN {}
    ELSE IF rt[dest].state # Prohibited /\ ~started THEN {}
    ELSE IF m_mngmt = NoL4 \/ rt[dest].state = Unknown THEN {}
    ELSE UNION {
        {<<rt[dest].state, v[1], v[2], d, dest>> :
            v \in SendVia(rt[d].networks, RouterLocal, {n \in Nets : netOper[n]}, FALSE)} :
        d \in {x \in DOMAIN rt : x # dest /\ rt[x].priority = 0}}

\* SS7Router::routeChanged: the advertisements of a route's state, each to
\* another adjacent node over a network the route itself does not use
routeChanged(rt, dest, started, phase2) ==
    IF ~(m_transfer /\ (started \/ phase2)) THEN {}
    ELSE IF rt[dest].state # Prohibited /\ ~started THEN {}
    ELSE IF m_mngmt = NoL4 \/ rt[dest].state = Unknown THEN {}
    ELSE UNION {
        {<<rt[dest].state, v[1], v[2], d, dest>> :
            v \in SendVia(rt[d].networks, RouterLocal,
                          {n \in Nets : netOper[n] /\ n \notin Range(rt[dest].networks)},
                          FALSE)} :
        d \in {x \in DOMAIN rt : x # dest /\ rt[x].priority = 0}}

\* SS7Router::notifyRoutes: advertise every route whose state is in the mask
notifyRoutes(rt, states, started, phase2) ==
    UNION {routeChanged(rt, d, started, phase2) :
           d \in {x \in DOMAIN rt : rt[x].state \in states}}

\* SS7Router::sendRouteTest: test the routes that are not adjacent and are
\* Prohibited (or Restricted), towards the adjacent node of each operational network
sendRouteTest(rt) ==
    IF m_mngmt = NoL4 THEN {}
    ELSE UNION {
        LET adjacent(n) ==
                LET c == {x \in DOMAIN rt : rt[x].priority = 0 /\ n \in Range(rt[x].networks)}
                IN  IF c = {} THEN 0 ELSE CHOOSE x \in c : \A y \in c : x <= y
        IN  {<<IF rt[d].state = Prohibited THEN "test-prohibited" ELSE "test-restricted",
               v[1], v[2], adjacent(v[1]), d>> :
                v \in SendVia(rt[d].networks, RouterLocal,
                              {n \in Nets : netOper[n] /\ adjacent(n) # 0}, FALSE)} :
        d \in {x \in DOMAIN rt :
                  /\ rt[x].priority # 0
                  /\ \/ rt[x].state = Prohibited
                     \/ rt[x].state = Restricted /\ TestRestricted}}

\* variant: the emergency resume also goes to the network that caused the check
checkRoutes_resumeAll(f, rt, noResume, when) ==
    IF TimerStarted(f.isolate)
    THEN [fsm |-> f, routes |-> rt, adv |-> {}, resume |-> {}]
    ELSE LET down == {d \in DOMAIN rt : ~RouteOperational(rt[d])}
             changed == {d \in down : rt[d].state # Prohibited}
             rt2 == [d \in DOMAIN rt |->
                        IF d \in changed THEN [rt[d] EXCEPT !.state = Prohibited] ELSE rt[d]]
             \* each changed route is advertised as soon as it is set
             RECURSIVE AdvAll(_, _)
             AdvAll(ds, cur) ==
                 IF ds = <<>> THEN {}
                 ELSE LET nxt == [cur EXCEPT ![Head(ds)].state = Prohibited]
                      IN  routeChanged(nxt, Head(ds), f.started, f.phase2)
                              \cup AdvAll(Tail(ds), nxt)
             isolated == down = DOMAIN rt
             f1 == [f EXCEPT !.checkRoutes = FALSE]
         IN  [fsm |-> IF isolated THEN [f1 EXCEPT !.isolate = TimerStart(@, when)] ELSE f1,
              routes |-> rt2,
              adv |-> AdvAll(SortedSeq(changed), rt),
              resume |-> IF isolated THEN Nets ELSE {}]

\* SS7Router::checkRoutes. The result: the machine, the table, what was sent
checkRoutes(f, rt, noResume, when) ==
    IF TimerStarted(f.isolate)
    THEN [fsm |-> f, routes |-> rt, adv |-> {}, resume |-> {}]
    ELSE LET down == {d \in DOMAIN rt : ~RouteOperational(rt[d])}
             changed == {d \in down : rt[d].state # Prohibited}
             rt2 == [d \in DOMAIN rt |->
                        IF d \in changed THEN [rt[d] EXCEPT !.state = Prohibited] ELSE rt[d]]
             \* each changed route is advertised as soon as it is set
             RECURSIVE Adv(_, _)
             Adv(ds, cur) ==
                 IF ds = <<>> THEN {}
                 ELSE LET nxt == [cur EXCEPT ![Head(ds)].state = Prohibited]
                      IN  routeChanged(nxt, Head(ds), f.started, f.phase2)
                              \cup Adv(Tail(ds), nxt)
             isolated == down = DOMAIN rt
             f1 == [f EXCEPT !.checkRoutes = FALSE]
         IN  [fsm |-> IF isolated THEN [f1 EXCEPT !.isolate = TimerStart(@, when)] ELSE f1,
              routes |-> rt2,
              adv |-> Adv(SortedSeq(changed), rt),
              resume |-> IF isolated THEN Nets \ {noResume} ELSE {}]

\* the calls out of the router made while the mutexes in locks are held: to the
\* management entity (controlExecute), to a network (its "resume" control), to
\* the user parts (notify)
CallsHeld(mgmt, l3ctl, l4, locks) ==
    {<<c, m>> : c \in (IF mgmt THEN {"controlExecute"} ELSE {}) \cup
                      (IF l3ctl THEN {"resume"} ELSE {}) \cup
                      (IF l4 THEN {"notify"} ELSE {}),
                m \in locks}

\* the user-part notifications of one pass over m_layer4
NotifyAll(who) == [i \in 1..Len(m_layer4) |-> <<m_layer4[i], who>>]

\* variant: an STP finishes its restart without a second phase
InPhase1_never(f) == FALSE

\* timerTick, line 491: an STP that has not entered the second phase
InPhase1(f) == m_transfer /\ ~f.phase2

\* SS7Router::restart2
restart2(f) == IF f.phase2 \/ ~m_transfer THEN f ELSE [f EXCEPT !.phase2 = TRUE]

\* variant: the restart timer is left running
isolatedDown_keepRestart(f) ==
    [f EXCEPT !.phase2 = FALSE, !.started = FALSE, !.isolate = TimerStop(@)]

\* timerTick, lines 476-479: the node is isolated and down
isolatedDown(f) ==
    [f EXCEPT !.phase2 = FALSE, !.started = FALSE,
              !.isolate = TimerStop(@), !.restart = TimerStop(@)]

\* SS7Router::timerTick. The result: the machine, the table, what was sent
timerTick(f, rt, when) ==
    LET quiet == [fsm |-> f, routes |-> rt, branch |-> "wait", tra |-> {}, adv |-> {},
                  test |-> {}, resume |-> {}, l4 |-> <<>>, checked |-> FALSE,
                  held |-> {}]
    IN  IF TimerTimeout(f.isolate, when)
        THEN [quiet EXCEPT !.branch = "isolated", !.fsm = isolatedDown(f)]
        ELSE IF f.started
        THEN IF TimerTimeout(f.routeTest, when)
             THEN [quiet EXCEPT !.branch = "test",
                       !.fsm = [f EXCEPT !.routeTest = TimerStart(@, when)],
                       !.test = sendRouteTest(rt),
                       !.held = CallsHeld(sendRouteTest(rt) # {}, FALSE, FALSE, {"routes"})]
             ELSE [quiet EXCEPT !.branch = "started"]
        ELSE IF InPhase1(f)
        THEN IF TimerTimeout(f.restart, when + Phase2Lead)
             THEN [quiet EXCEPT !.branch = "phase2", !.fsm = restart2(f),
                       !.adv = notifyRoutes(rt, {Prohibited}, FALSE, TRUE),
                       !.held = CallsHeld(notifyRoutes(rt, {Prohibited}, FALSE, TRUE) # {},
                                          FALSE, FALSE, {"router"})]
             ELSE quiet
        ELSE IF TimerTimeout(f.restart, now)
        THEN LET f1 == [f EXCEPT !.restart = TimerStop(@), !.started = TRUE,
                                 !.phase2 = FALSE]
                 cr == IF f1.checkRoutes THEN checkRoutes(f1, rt, NoNet, now)
                       ELSE [fsm |-> f1, routes |-> rt, adv |-> {}, resume |-> {}]
                 nr == IF m_transfer
                       THEN notifyRoutes(cr.routes, NotProhibited, TRUE, FALSE)
                       ELSE {}
             IN  [fsm |-> [cr.fsm EXCEPT !.routeTest =
                              IF @.interval # 0 THEN TimerStart(@, when) ELSE @],
                  routes |-> cr.routes,
                  branch |-> "complete",
                  tra |-> sendRestart(rt, NoNet),
                  adv |-> cr.adv \cup nr,
                  test |-> {},
                  resume |-> cr.resume,
                  l4 |-> NotifyAll("router"),
                  checked |-> f1.checkRoutes /\ ~TimerStarted(f1.isolate),
                  held |-> CallsHeld(sendRestart(rt, NoNet) \cup cr.adv # {},
                                     cr.resume # {}, FALSE, {"router", "routes"})
                           \cup CallsHeld(nr # {}, FALSE, m_layer4 # <<>>, {"router"})]
        ELSE quiet

(***************************************************************************)
(* Operations of the restart machine                                       *)
(***************************************************************************)
RestartUnchanged == <<snmVars, fnVars, cfgVars, l4Vars, cntVars, rx, tx, nRx, nTx, nRouteOk, nRouteFwd>>

\* SS7Router::restart, called on its own
Restart ==
    /\ SetFsm(restart(Fsm, now))
    /\ phase2Seen' = FALSE
    /\ out' = [NoOut EXCEPT !.op = "restart", !.pre = FsmPhase(Fsm), !.ret = TRUE]
    /\ UNCHANGED <<RestartUnchanged, envVars>>

\* SS7Router::disable
Disable ==
    /\ SetFsm(disable(Fsm))
    /\ out' = [NoOut EXCEPT !.op = "disable", !.pre = FsmPhase(Fsm)]
    /\ UNCHANGED <<RestartUnchanged, envVars, phase2Seen>>

\* SS7Router::timerTick at the current instant
TimerTick ==
    LET t == timerTick(Fsm, routes, now)
    IN  /\ SetFsm(t.fsm)
        /\ routes' = t.routes
        /\ phase2Seen' = (phase2Seen \/ t.fsm.phase2)
        /\ out' = [NoOut EXCEPT !.op = "timerTick", !.pre = FsmPhase(Fsm),
                      !.branch = t.branch, !.tra = t.tra, !.adv = t.adv,
                      !.test = t.test, !.resume = t.resume, !.l4 = t.l4,
                      !.checked = t.checked, !.held = t.held]
        /\ UNCHANGED <<RestartUnchanged, netOper, now>>

\* s_dict_control: the operations and the commands they stand for
s_dict_control ==
    {<<"pause", "Pause">>, <<"resume", "Resume">>, <<"traffic", "Traffic">>,
     <<"advertise", "Advertise">>, <<"prohibit", "TFP">>, <<"restrict", "TFR">>,
     <<"congest", "TFC">>, <<"allow", "TFA">>, <<"allowed", "TRA">>,
     <<"test-prohibited", "RST">>, <<"test-restricted", "RSR">>}

\* oper->toInteger(s_dict_control,-1): the command of an operation
ControlCommand(oper) ==
    IF \E e \in s_dict_control : e[1] = oper
    THEN (CHOOSE e \in s_dict_control : e[1] = oper)[2]
    ELSE "none"

\* control, line 1107: resume has nothing to do
Resume_running(f) == f.started \/ TimerStarted(f.restart)

\* SS7Router::control for the commands Pause, Resume and Restart, by a
\* request without completion; cmpOk: the component is the router's name
SS7Router_control(f, oper, cmpOk, when) ==
    LET cmd == ControlCommand(oper) IN
    IF ~cmpOk THEN [fsm |-> f, ret |-> FALSE, did |-> "component"]
    ELSE IF cmd = "Pause" THEN [fsm |-> disable(f), ret |-> TRUE, did |-> "disable"]
    ELSE IF cmd = "Resume" /\ Resume_running(f) THEN [fsm |-> f, ret |-> TRUE, did |-> "nothing"]
    ELSE IF cmd \in {"Resume", "Restart"}
    THEN [fsm |-> restart(f, when), ret |-> TRUE, did |-> "restart"]
    ELSE [fsm |-> f, ret |-> FALSE, did |-> "nothing"]

\* the operations asked of the router
ControlOpers == {"pause", "resume", "restart"}

\* SS7Router::control
Control(oper, cmpOk) ==
    \E r \in {SS7Router_control(Fsm, oper, cmpOk, now)} :
        /\ SetFsm(r.fsm)
        /\ phase2Seen' = (phase2Seen /\ r.did # "restart")
        /\ out' = [NoOut EXCEPT !.op = "control", !.pre = FsmPhase(Fsm), !.ret = r.ret,
                                !.oper = oper, !.did = r.did]
        /\ UNCHANGED <<RestartUnchanged, envVars>>

\* variant: a network coming up does not end the isolation
isolationEnded_not(f) == f

\* notify, lines 1034-1037: isolation ended before shutting down
isolationEnded(f) == [f EXCEPT !.isolate = TimerStop(@)]

\* SS7Router::notify(network,sls). sendTra: the notification is about a link
\* that came up, the first active one of its network
Notify(network, sendTra) ==
    LET f == Fsm
        up == network # NoNet /\ netOper[network]
        down == network # NoNet /\ ~netOper[network]
        f1 == IF up THEN isolationEnded(f) ELSE f
        doRestart == up /\ ~f1.started /\ ~TimerStarted(f1.restart)
        useMe == up /\ ~f1.started
        cr == IF down THEN checkRoutes(f, routes, network, now)
              ELSE [fsm |-> IF doRestart THEN restart(f1, now) ELSE f1,
                    routes |-> routes, adv |-> {}, resume |-> {}]
        tra == IF up /\ f1.started /\ sendTra THEN sendRestart(routes, network) ELSE {}
    IN  /\ SetFsm(cr.fsm)
        /\ routes' = cr.routes
        /\ phase2Seen' = (phase2Seen /\ ~doRestart)
        /\ out' = [NoOut EXCEPT !.op = "notify", !.pre = FsmPhase(f), !.net = network,
                      !.branch = IF up THEN "up" ELSE IF down THEN "down" ELSE "none",
                      !.tra = tra,
                      !.adv = cr.adv,
                      !.resume = cr.resume,
                      !.checked = down /\ ~TimerStarted(f.isolate),
                      !.held = CallsHeld(tra \cup cr.adv # {}, cr.resume # {}, FALSE,
                                         {"router", "routes"})
                               \cup CallsHeld(FALSE, FALSE, m_layer4 # <<>>, {"router"}),
                      !.l4 = [i \in 1..Len(m_layer4) |->
                                 IF useMe /\ m_layer4[i] # m_mngmt
                                 THEN <<m_layer4[i], "router">>
                                 ELSE <<m_layer4[i], network>>]]
        /\ UNCHANGED <<RestartUnchanged, netOper, now>>

\* the order of the route states, and a state masked by SS7Route::KnownState
StateRank(st) ==
    CASE st = Prohibited -> 1
      [] st = Unknown -> 2
      [] st = Restricted -> 3
      [] st = Congestion -> 4
      [] st = Allowed -> 5

KnownRank(st) == IF st = Unknown THEN 0 ELSE StateRank(st)

\* setRouteSpecificState, the loop over the route's networks: the best state
\* among the operational networks that are not adjacent to the node srcPC
RECURSIVE BestState(_, _, _, _)
BestState(nets, sub, srcPC, best) ==
    IF nets = <<>> THEN best
    ELSE LET n == Head(nets)
         IN  BestState(Tail(nets), sub, srcPC,
                       IF getRoutePriority(n, srcPC) # 0 /\ KnownRank(sub[n]) > StateRank(best)
                          /\ netOper[n]
                       THEN sub[n] ELSE best)

\* variant: the aggregate state of the route becomes the best state found
StoredState_best(state, best) == best

\* setRouteSpecificState, line 722: the state stored on the router's route
StoredState(state, best) == state

\* SS7Router::setRouteSpecificState. The result: what it returns, the table, and
\* whether routeChanged was called
setRouteSpecificState(rt, packedPC, srcPC, state) ==
    LET fail == [ret |-> FALSE, routes |-> rt, called |-> FALSE]
    IN  IF packedPC = 0 \/ srcPC = 0 \/ packedPC \notin DOMAIN rt THEN fail
        ELSE LET route == rt[packedPC]
                 adjacent == {n \in Range(route.networks) : getRoutePriority(n, srcPC) = 0}
                 sub == [n \in DOMAIN route.sub |->
                            IF n \in adjacent THEN state ELSE route.sub[n]]
                 best == BestState(route.networks, route.sub, srcPC, state)
             IN  IF adjacent = {} THEN fail
                 ELSE IF best # route.state
                 THEN [ret |-> TRUE,
                       routes |-> [rt EXCEPT ![packedPC].sub = sub,
                                             ![packedPC].state = StoredState(state, best)],
                       called |-> state # Unknown]
                 ELSE [ret |-> TRUE, routes |-> [rt EXCEPT ![packedPC].sub = sub],
                       called |-> FALSE]

\* setRouteSpecificState called for a route state reported by the node srcPC
SetRouteSpecificState(packedPC, srcPC, state) ==
    LET r == setRouteSpecificState(routes, packedPC, srcPC, state)
        adv == IF r.called THEN routeChanged(r.routes, packedPC, m_started, m_phase2)
               ELSE {}
    IN  /\ routes' = r.routes
        /\ out' = [NoOut EXCEPT !.op = "setRouteSpecificState", !.pre = FsmPhase(Fsm),
                      !.ret = r.ret, !.adv = adv, !.dest = packedPC,
                      !.old = IF packedPC \in DOMAIN routes THEN routes[packedPC].state
                              ELSE "none",
                      !.called = r.called,
                      !.src = srcPC,
                      !.held = CallsHeld(adv # {}, FALSE, FALSE, {"routes"})]
        /\ UNCHANGED <<RestartUnchanged, fsmVars, netOper, now, phase2Seen>>

\* SS7Route::detach: the list without the network
SS7Route_detach(nets, network) ==
    IF network \in Range(nets) THEN RemoveAt(nets, IndexOf(nets, network)) ELSE nets

\* variant: the network always goes to the end of the list
SS7Route_attach_append(nets, network, packed) ==
    IF getRoutePriority(network, packed) = NoPriority THEN nets
    ELSE LET rest == IF network \in Range(nets)
                     THEN RemoveAt(nets, IndexOf(nets, network)) ELSE nets
         IN  Append(rest, network)

\* variant: a network goes after the networks of its own priority
SS7Route_attach_tiesAfter(nets, network, packed) ==
    LET priority == getRoutePriority(network, packed)
        rest == SS7Route_detach(nets, network)
        later == {i \in 1..Len(rest) : priority < getRoutePriority(rest[i], packed)}
    IN  IF priority = NoPriority THEN nets
        ELSE IF later = {} THEN Append(rest, network)
        ELSE InsertAt(rest, CHOOSE i \in later : \A j \in later : i <= j, network)

\* SS7Route::attach: the list of the route to packed after attaching the network
SS7Route_attach(nets, network, packed) ==
    LET priority == getRoutePriority(network, packed)
        rest == SS7Route_detach(nets, network)
        notBefore == {i \in 1..Len(rest) : priority <= getRoutePriority(rest[i], packed)}
    IN  IF priority = NoPriority THEN nets
        ELSE IF priority = 0 THEN <<network>> \o rest
        ELSE IF notBefore = {} THEN Append(rest, network)
        ELSE InsertAt(rest, CHOOSE i \in notBefore : \A j \in notBefore : i <= j, network)

\* SS7Route::attach called on the route to packed
RouteAttach(packed, network) ==
    /\ routes' = [routes EXCEPT ![packed].networks = SS7Route_attach(@, network, packed)]
    /\ out' = [NoOut EXCEPT !.op = "attach", !.net = network, !.dest = packed]
    /\ UNCHANGED <<RestartUnchanged, fsmVars, netOper, now, phase2Seen>>

\* SS7Route::detach called on the route to packed
RouteDetach(packed, network) ==
    /\ routes' = [routes EXCEPT ![packed].networks = SS7Route_detach(@, network)]
    /\ out' = [NoOut EXCEPT !.op = "detach", !.net = network, !.dest = packed,
                             !.ret = routes'[packed].networks # <<>>]
    /\ UNCHANGED <<RestartUnchanged, fsmVars, netOper, now, phase2Seen>>

(***************************************************************************)
(* SS7Router::attach / detach of a network                                 *)
(***************************************************************************)
\* SS7Router::updateRoutes: the network joins every route it has a priority for
updateRoutes(rt, network) ==
    [d \in DOMAIN rt |-> [rt[d] EXCEPT !.networks = SS7Route_attach(@, network, d)]]

\* SS7Router::removeRoutes: the network leaves every route
removeRoutes(rt, network) ==
    [d \in DOMAIN rt |-> [rt[d] EXCEPT !.networks = SS7Route_detach(@, network)]]

\* the router itself, which is an SS7Layer3 too
Self == "router"

\* variant: the network is appended without looking for it in the list
AttachL3_noScan(network) ==
    /\ network # NoNet /\ network # Self
    /\ m_changes < MaxChanges
    /\ m_changes' = m_changes + 1
    /\ m_layer3' = Append(m_layer3, network)
    /\ routes' = updateRoutes(routes, network)
    /\ out' = [NoOut EXCEPT !.op = "attachL3", !.net = network, !.ret = TRUE]
    /\ UNCHANGED <<snmVars, fnVars, cfgVars, m_layer4, m_mngmt, cntVars, fsmVars, netOper, now,
                   rx, tx, ghostVars>>

AttachL3(network) ==
    IF network = NoNet \/ network = Self
    THEN /\ out' = [NoOut EXCEPT !.op = "attachL3", !.net = network, !.branch = "ignored"]
         /\ UNCHANGED <<snmVars, fnVars, cfgVars, l4Vars, cntVars, fsmVars, envVars, rx, tx,
                        ghostVars>>
    ELSE LET add == network \notin Range(m_layer3)
         IN  /\ IF add
                THEN /\ m_changes < MaxChanges
                     /\ m_changes' = m_changes + 1
                     /\ m_layer3' = Append(m_layer3, network)
                ELSE UNCHANGED <<m_layer3, m_changes>>
             /\ routes' = updateRoutes(routes, network)
             /\ out' = [NoOut EXCEPT !.op = "attachL3", !.net = network, !.ret = add]
             /\ UNCHANGED <<snmVars, fnVars, cfgVars, m_layer4, m_mngmt, cntVars, fsmVars,
                            netOper, now, rx, tx, ghostVars>>

DetachL3(network) ==
    LET found == network # NoNet /\ network \in Range(m_layer3)
    IN  /\ IF found
           THEN /\ m_changes < MaxChanges
                /\ m_changes' = m_changes + 1
                /\ m_layer3' = RemoveAt(m_layer3, IndexOf(m_layer3, network))
                /\ routes' = removeRoutes(routes, network)
           ELSE UNCHANGED <<m_layer3, m_changes, routes>>
        /\ out' = [NoOut EXCEPT !.op = "detachL3", !.net = network, !.ret = found]
        /\ UNCHANGED <<snmVars, fnVars, cfgVars, m_layer4, m_mngmt, cntVars, fsmVars, netOper, now,
                       rx, tx, ghostVars>>

\* a network goes down or comes up (SS7Layer3::operational changes)
NetChange(n) ==
    /\ netOper' = [netOper EXCEPT ![n] = ~@]
    /\ out' = [NoOut EXCEPT !.op = "netChange"]
    /\ UNCHANGED <<RestartUnchanged, fsmVars, routes, now, phase2Seen>>

\* time passes
Advance ==
    /\ now + TickStep <= MaxTime
    /\ now' = now + TickStep
    /\ out' = [NoOut EXCEPT !.op = "advance"]
    /\ UNCHANGED <<RestartUnchanged, fsmVars, routes, netOper, phase2Seen>>

(***************************************************************************)
(* SNM management entity (management.cpp): labels, messages, payloads      *)
(***************************************************************************)
\* point code families: the two with a payload layout, and one without
ITU == "ITU"

ANSI == "ANSI"

China == "China"

PcTypes == {ITU, ANSI, China}

\* SS7Label::length of a family: the bytes of a routing label
LabelLength(t) == IF t = ITU THEN 4 ELSE 7

\* SS7Label(type,dpc,opc,sls)
Label(t, dpc, opc, sls) == [type |-> t, dpc |-> dpc, opc |-> opc, sls |-> sls]

\* SS7Label(original,sls,spare): the label of the answer, DPC and OPC swapped
Reversed(l) == [l EXCEPT !.dpc = l.opc, !.opc = l.dpc]

\* the SNM message types the changeover and changeback procedures use
ChangeoverOrders == {"COO", "XCO", "ECO"}

ChangeoverAcks == {"COA", "XCA", "ECA"}

SnmTypes == ChangeoverOrders \cup ChangeoverAcks \cup {"CBD", "CBA"}

\* an MSU of the management service: label, heading code, bytes after it
Msu(label, snmType, code) == [label |-> label, snmType |-> snmType, code |-> code]

\* SS7MSU::length: SIO, label, heading code, code bytes
MsuLength(m) == 1 + LabelLength(m.label.type) + 1 + Len(m.code)

\* the largest changeover sequence control() encodes (sequence & 0x7f)
SeqMask == 127
\* one byte
ByteMod == 256
\* the signalling link code takes the low nibble
NibbleMod == 16

\* variant: the ANSI payload with the nibbles of the first byte swapped
EncodePayload_swapped(t, value, slc) ==
    IF t = ITU THEN <<value % ByteMod>>
    ELSE <<((value % NibbleMod) + (slc % NibbleMod) * NibbleMod) % ByteMod,
           (value \div NibbleMod) % ByteMod>>

\* control(), COO/COA and CBD/CBA: the bytes after the heading code for a
\* sequence or code value and a link code; (slc & 0x0f) | (value << 4) has no
\* bit in common between its operands, so the sum is their union
EncodePayload(t, value, slc) ==
    IF t = ITU THEN <<value % ByteMod>>
    ELSE <<((slc % NibbleMod) + ((value * NibbleMod) % ByteMod)) % ByteMod,
           (value \div NibbleMod) % ByteMod>>

\* SS7MsgSNM::parse, COO/COA/CBD/CBA: the value and the link code read from
\* the bytes after the heading code (-1: parameter not added)
ParsePayload(t, buf) ==
    [value |-> IF t = ITU /\ Len(buf) >= 1 THEN buf[1]
               ELSE IF t = ANSI /\ Len(buf) >= 2
                    THEN (buf[1] \div NibbleMod) + buf[2] * NibbleMod
                    ELSE -1,
     slc |-> IF t = ANSI /\ Len(buf) >= 2 THEN buf[1] % NibbleMod ELSE -1]

\* SS7MsgSNM::parse: the parameters of a message
SS7MsgSNM_parse(snmType, t, buf) ==
    LET p == ParsePayload(t, buf) IN
    [sequence |-> IF snmType \in {"COO", "COA"} THEN p.value ELSE -1,
     code |-> IF snmType \in {"CBD", "CBA"} THEN p.value ELSE -1,
     slc |-> IF snmType \in {"COO", "COA", "CBD", "CBA"} THEN p.slc ELSE -1]

(***************************************************************************)
(* The pending table: SnmPending messages in a SignallingMessageTimerList  *)
(***************************************************************************)
\* SnmPending: the MSU, its label, the link to send on, the two timers; id and
\* rtx (retransmissions so far) are history
SnmPending(id, msu, label, txSls, interval, global) ==
    [id |-> id, msu |-> msu, label |-> label, txSls |-> txSls,
     timer |-> Timer(interval), global |-> Timer(global), rtx |-> 0]

\* SnmPending::matches: the label mirrors lbl
Matches(p, lbl) ==
    p.label.opc = lbl.dpc /\ p.label.dpc = lbl.opc /\ p.label.sls = lbl.sls

\* SignallingMessageTimer::fireTime: the earlier of the two running timers
FireTime(m) ==
    IF TimerStarted(m.global)
    THEN IF TimerStarted(m.timer) /\ m.timer.timeout < m.global.timeout
         THEN m.timer.timeout ELSE m.global.timeout
    ELSE m.timer.timeout

\* SignallingMessageTimerList::add: restart the timer, start the global timer
\* unless it runs, insert before the first message that fires later
TimerList_add(q, m, when) ==
    LET started == [m EXCEPT !.timer = TimerStart(TimerStop(m.timer), when),
                             !.global = IF m.global.interval # 0 /\ ~TimerStarted(m.global)
                                        THEN TimerStart(m.global, when) ELSE m.global]
        later == {i \in 1..Len(q) : FireTime(started) < FireTime(q[i])}
    IN  IF later = {} THEN Append(q, started)
        ELSE InsertAt(q, CHOOSE i \in later : \A j \in later : i <= j, started)

\* SignallingMessageTimerList::timeout: the first message is due
TimerList_due(q, when) ==
    /\ q # <<>>
    /\ TimerTimeout(q[1].timer, when) \/ TimerTimeout(q[1].global, when)

(***************************************************************************)
(* Links of the adjacent nodes and their Inactive flag                     *)
(***************************************************************************)
\* the links (by sls) each network has
NetLinks(n) == IF n = "n1" THEN {0} ELSE {}

Links == {<<n, sls>> \in Nets \X {0, 1} : sls \in NetLinks(n)}

\* the networks having remote as an adjacent node (route priority 0)
AdjacentNets(remote) == {n \in Nets : getRoutePriority(n, remote) = 0}

\* variant: a cleared flag stays set
SS7Router_inhibit_sticky(inh, link, setInactive, clrInactive) ==
    LET nets == AdjacentNets(link.dpc) IN
    IF link.dpc = 0 \/ nets = {} THEN [ok |-> FALSE, inhibited |-> inh]
    ELSE LET n == CHOOSE x \in nets : TRUE IN
         IF link.sls \notin NetLinks(n) THEN [ok |-> FALSE, inhibited |-> inh]
         ELSE [ok |-> TRUE,
               inhibited |-> [inh EXCEPT ![<<n, link.sls>>] = @ \/ setInactive]]

\* SS7Router::inhibit(link,setFlags,clrFlags) for the flag Inactive: the
\* network adjacent to the link's DPC changes the flags of the link, if it
\* has that link
SS7Router_inhibit(inh, link, setInactive, clrInactive) ==
    LET nets == AdjacentNets(link.dpc) IN
    IF link.dpc = 0 \/ nets = {} THEN [ok |-> FALSE, inhibited |-> inh]
    ELSE LET n == CHOOSE x \in nets : TRUE IN
         IF link.sls \notin NetLinks(n) THEN [ok |-> FALSE, inhibited |-> inh]
         ELSE [ok |-> TRUE,
               inhibited |-> [inh EXCEPT ![<<n, link.sls>>] = (@ \/ setInactive) /\ ~clrInactive]]

(***************************************************************************)
(* Operations of the management entity                                     *)
(***************************************************************************)
\* what the last operation of the management entity did: MSUs handed to
\* transmitMSU, accesses to m_pending with the mutex held or not, calls of
\* inhibit and recover, pending messages timed out or acknowledged
NoSnm ==
    [op |-> "none", type |-> "none", ret |-> "none", tx |-> <<>>, qacc |-> {},
     inhibits |-> <<>>, recovered |-> <<>>, final |-> <<>>, nonfinal |-> <<>>,
     removed |-> <<>>, posted |-> <<>>, label |-> Label(ITU, 0, 0, 0), code |-> <<>>,
     seq |-> -1]

\* a call of transmitMSU(msu,label,sls)
TxCall(msu, label, sls) == [msu |-> msu, label |-> label, sls |-> sls]

\* a call of inhibit(link,setFlags,clrFlags) and its answer
InhibitCall(link, setInactive, clrInactive, ok) ==
    [link |-> link, set |-> setInactive, clr |-> clrInactive, ok |-> ok]

\* variant: the message is queued whatever transmitMSU answered
postpone_always(q, id, msu, label, txSls, interval, global, when, txOk) ==
    [pending |-> TimerList_add(q, SnmPending(id, msu, label, txSls, interval, global), when),
     tx |-> IF interval = 0 THEN <<>> ELSE <<TxCall(msu, label, txSls)>>,
     ret |-> TRUE, qacc |-> {<<"add", TRUE>>}]

\* SS7Management::postpone: send now unless interval is 0, queue the message
\* if that worked; txOk is the answer of transmitMSU
postpone(q, id, msu, label, txSls, interval, global, when, txOk) ==
    IF interval = 0 \/ txOk
    THEN [pending |-> TimerList_add(q, SnmPending(id, msu, label, txSls, interval, global), when),
          tx |-> IF interval = 0 THEN <<>> ELSE <<TxCall(msu, label, txSls)>>,
          ret |-> TRUE, qacc |-> {<<"add", TRUE>>}]
    ELSE [pending |-> q, tx |-> <<TxCall(msu, label, txSls)>>,
          ret |-> FALSE, qacc |-> {}]

\* variant: the final timeout of a changeover order leaves the link alone
timeout_noInhibit(inh, msg) ==
    CASE msg.msu.snmType = "ECA" ->
           [inhibited |-> inh, inhibits |-> <<>>, tx |-> <<TxCall(msg.msu, msg.label, msg.txSls)>>]
      [] msg.msu.snmType = "CBD" ->
           LET r == SS7Router_inhibit(inh, msg.label, FALSE, TRUE) IN
           [inhibited |-> r.inhibited, tx |-> <<>>,
            inhibits |-> <<InhibitCall(msg.label, FALSE, TRUE, r.ok)>>]
      [] OTHER -> [inhibited |-> inh, inhibits |-> <<>>, tx |-> <<>>]

\* SS7Management::timeout(msu,label,txSls,final) with final set: complete the
\* procedure of the message locally
timeout(inh, msg) ==
    CASE msg.msu.snmType \in ChangeoverOrders ->
           LET r == SS7Router_inhibit(inh, msg.label, TRUE, FALSE) IN
           [inhibited |-> r.inhibited, tx |-> <<>>,
            inhibits |-> <<InhibitCall(msg.label, TRUE, FALSE, r.ok)>>]
      [] msg.msu.snmType = "ECA" ->
           [inhibited |-> inh, inhibits |-> <<>>, tx |-> <<TxCall(msg.msu, msg.label, msg.txSls)>>]
      [] msg.msu.snmType = "CBD" ->
           LET r == SS7Router_inhibit(inh, msg.label, FALSE, TRUE) IN
           [inhibited |-> r.inhibited, tx |-> <<>>,
            inhibits |-> <<InhibitCall(msg.label, FALSE, TRUE, r.ok)>>]
      [] OTHER -> [inhibited |-> inh, inhibits |-> <<>>, tx |-> <<>>]

\* variant: only a global deadline that has passed makes a timeout final
IsFinal_globalOnly(msg, when) == TimerTimeout(msg.global, when)

\* timerTick, line 915: the timeout of a popped message is final
IsFinal(msg, when) == ~TimerStarted(msg.global) \/ TimerTimeout(msg.global, when)

\* variant: a message that is not final is dropped, not queued again
Requeue_drop(q, msg, when) == q

\* variant: the global deadline starts again with every retransmission
Requeue_restartGlobal(q, msg, when) ==
    TimerList_add(q, [msg EXCEPT !.rtx = @ + 1, !.global = TimerStop(@)], when)

\* timerTick, lines 918-920: the message goes back into the table
Requeue(q, msg, when) == TimerList_add(q, [msg EXCEPT !.rtx = @ + 1], when)

\* SS7Management::timerTick: pop the due messages one by one; a final timeout
\* destroys the message, any other sends it again and puts it back, which is
\* done after the mutex was released
RECURSIVE SS7Management_timerTick(_, _, _, _)
SS7Management_timerTick(q, inh, when, acc) ==
    IF ~TimerList_due(q, when)
    THEN [acc EXCEPT !.pending = q, !.inhibited = inh, !.qacc = @ \cup {<<"pop", TRUE>>}]
    ELSE LET msg == Head(q)
             final == IsFinal(msg, when)
             t == timeout(inh, msg)
             popped == [acc EXCEPT !.qacc = @ \cup {<<"pop", TRUE>>}]
         IN  \* the next round of the loop, on what this round left
             CHOOSE r \in
                 {SS7Management_timerTick(q2, inh2, when, acc2) :
                     q2 \in {IF final THEN Tail(q) ELSE Requeue(Tail(q), msg, when)},
                     inh2 \in {IF final THEN t.inhibited ELSE inh},
                     acc2 \in {IF final
                               THEN [popped EXCEPT !.tx = @ \o t.tx,
                                                   !.inhibits = @ \o t.inhibits,
                                                   !.final = Append(@, msg)]
                               ELSE [popped EXCEPT !.tx = Append(@, TxCall(msg.msu, msg.label, msg.txSls)),
                                                   !.nonfinal = Append(@, msg),
                                                   !.qacc = @ \cup {<<"add", FALSE>>}]}} : TRUE

\* the first pending message an acknowledgment takes out of the table (0: none)
FirstIndex(q, Test(_)) ==
    LET hits == {i \in 1..Len(q) : Test(q[i])} IN
    IF hits = {} THEN 0 ELSE CHOOSE i \in hits : \A j \in hits : i <= j

\* variant: any pending changeover order is acknowledged, whatever its label
AckedOrder_anyLabel(p, label, code) ==
    /\ Len(code) <= Len(p.msu.code)
    /\ p.msu.snmType \in ChangeoverOrders

\* receivedMSU, lines 440-455: the pending message a COA/XCA/ECA acknowledges
AckedOrder(p, label, code) ==
    /\ Len(code) <= Len(p.msu.code)
    /\ Matches(p, label)
    /\ p.msu.snmType \in ChangeoverOrders

\* variant: the code bytes are not compared
AckedDeclaration_anyCode(p, msu) ==
    /\ MsuLength(p.msu) = MsuLength(msu)
    /\ Len(msu.code) <= Len(p.msu.code)
    /\ p.msu.snmType = "CBD"
    /\ Matches(p, msu.label)

\* receivedMSU, lines 500-510: the pending message a CBA acknowledges
AckedDeclaration(p, msu) ==
    /\ MsuLength(p.msu) = MsuLength(msu)
    /\ Len(msu.code) <= Len(p.msu.code)
    /\ p.msu.snmType = "CBD"
    /\ SubSeq(p.msu.code, 1, Len(msu.code)) = msu.code
    /\ Matches(p, msu.label)

\* what an operation hands back: the table, the flags and what it did
SnmResult(q, inh) ==
    [pending |-> q, inhibited |-> inh, ret |-> Accepted, tx |-> <<>>, qacc |-> {},
     inhibits |-> <<>>, recovered |-> <<>>, final |-> <<>>, nonfinal |-> <<>>,
     removed |-> <<>>, posted |-> <<>>]

\* HandledMSU(bool)
Handled(ok) == IF ok THEN Accepted ELSE Failure

\* a call of recover(link,sequence)
RecoverCall(link, sequence) ==
    IF sequence >= 0 THEN <<[link |-> link, sequence |-> sequence]>> ELSE <<>>

\* a call of postpone, what transmitMSU answers in it, and its answer
PostCall(msu, interval, global, txOk, ret) ==
    [msu |-> msu, interval |-> interval, global |-> global, txOk |-> txOk, ret |-> ret]

\* interval of a changeover order, intervals of a changeback declaration,
\* deadline of a postponed emergency changeover acknowledgment
CooInterval == 1800
CbdInterval == 1000
CbdGlobal == 2000
EcaGlobal == 200

\* variant: the acknowledgment is sent and an ECA is made pending as well
ChangeoverReply_both(q, id, t, lbl, sls, slc, seq, txOk, when) ==
    LET p == postpone(q, id, Msu(lbl, "ECA", <<>>), lbl, sls, 0, EcaGlobal, when, txOk)
    IN  [pending |-> p.pending, qacc |-> p.qacc,
         tx |-> <<TxCall(Msu(lbl, "COA", EncodePayload(t, seq, slc)), lbl, sls)>>,
         posted |-> <<PostCall(Msu(lbl, "ECA", <<>>), 0, EcaGlobal, txOk, p.ret)>>,
         ret |-> Handled(p.ret)]

\* receivedMSU, lines 403-427: answer a changeover order with the sequence
\* the router reports for the link, or postpone an ECA if it reports none
ChangeoverReply(q, id, t, lbl, sls, slc, seq, txOk, when) ==
    IF seq >= 0
    THEN IF t \notin {ITU, ANSI}
         THEN [pending |-> q, qacc |-> {}, tx |-> <<>>, posted |-> <<>>, ret |-> Failure]
         ELSE [pending |-> q, qacc |-> {}, posted |-> <<>>, ret |-> Handled(txOk),
               tx |-> <<TxCall(Msu(lbl, "COA", EncodePayload(t, seq, slc)), lbl, sls)>>]
    ELSE LET p == postpone(q, id, Msu(lbl, "ECA", <<>>), lbl, sls, 0, EcaGlobal, when, txOk)
         IN  [pending |-> p.pending, qacc |-> p.qacc, tx |-> p.tx,
              posted |-> <<PostCall(Msu(lbl, "ECA", <<>>), 0, EcaGlobal, txOk, p.ret)>>,
              ret |-> Handled(p.ret)]

\* variant: the changeback acknowledgment carries no code bytes
ChangebackReply_empty(msu, lbl) == Msu(lbl, "CBA", <<>>)

\* receivedMSU, lines 482-488: the CBA that answers a CBD
ChangebackReply(msu, lbl) == Msu(lbl, "CBA", msu.code)

\* SS7Management::receivedMSU for the changeover and changeback messages:
\* msu came from network n on link sls, netSeq is what the adjacent network
\* answers to getSequence, txOk what transmitMSU answers
SS7Management_receivedMSU(q, inh, id, n, msu, sls, netSeq, txOk, when) ==
    LET label == msu.label
        lbl == Reversed(label)
        msg == SS7MsgSNM_parse(msu.snmType, label.type, msu.code)
        base == SnmResult(q, inh)
    IN
    IF NetLocal(n) # 0 /\ label.dpc # NetLocal(n) THEN [base EXCEPT !.ret = Rejected]
    ELSE CASE msu.snmType \in ChangeoverOrders ->
                LET r == SS7Router_inhibit(inh, lbl, TRUE, FALSE) IN
                IF ~r.ok
                THEN [base EXCEPT !.inhibits = <<InhibitCall(lbl, TRUE, FALSE, FALSE)>>]
                ELSE LET a == ChangeoverReply(q, id, label.type, lbl, sls,
                                  IF msg.slc >= 0 THEN msg.slc ELSE sls, netSeq, txOk, when)
                     IN  [base EXCEPT !.inhibited = r.inhibited,
                                      !.inhibits = <<InhibitCall(lbl, TRUE, FALSE, TRUE)>>,
                                      !.recovered = RecoverCall(lbl, msg.sequence),
                                      !.pending = a.pending, !.qacc = a.qacc, !.tx = a.tx,
                                      !.posted = a.posted, !.ret = a.ret]
           [] msu.snmType \in ChangeoverAcks ->
                LET isAcked(p) == AckedOrder(p, label, msu.code)
                    i == FirstIndex(q, isAcked)
                    found == [base EXCEPT !.qacc = {<<"find", TRUE>>}]
                IN  IF i = 0 THEN found
                    ELSE LET pend == q[i]
                             r == SS7Router_inhibit(inh, pend.label, TRUE, FALSE)
                         IN  [found EXCEPT !.pending = RemoveAt(q, i),
                                           !.qacc = @ \cup {<<"remove", TRUE>>},
                                           !.removed = <<pend>>,
                                           !.inhibited = r.inhibited,
                                           !.inhibits = <<InhibitCall(pend.label, TRUE, FALSE, r.ok)>>,
                                           !.recovered = RecoverCall(pend.label, msg.sequence)]
           [] msu.snmType = "CBD" ->
                LET r == SS7Router_inhibit(inh, lbl, FALSE, TRUE) IN
                IF ~r.ok
                THEN [base EXCEPT !.inhibits = <<InhibitCall(lbl, FALSE, TRUE, FALSE)>>]
                ELSE [base EXCEPT !.inhibited = r.inhibited,
                                  !.inhibits = <<InhibitCall(lbl, FALSE, TRUE, TRUE)>>,
                                  !.tx = <<TxCall(ChangebackReply(msu, lbl), lbl, sls)>>,
                                  !.ret = Handled(txOk)]
           [] msu.snmType = "CBA" ->
                LET isAcked(p) == AckedDeclaration(p, msu)
                    i == FirstIndex(q, isAcked)
                    found == [base EXCEPT !.qacc = {<<"find", TRUE>>}]
                IN  IF i = 0 THEN found
                    ELSE LET pend == q[i]
                             r == SS7Router_inhibit(inh, pend.label, FALSE, TRUE)
                         IN  [found EXCEPT !.pending = RemoveAt(q, i),
                                           !.qacc = @ \cup {<<"remove", TRUE>>},
                                           !.removed = <<pend>>,
                                           !.inhibited = r.inhibited,
                                           !.inhibits = <<InhibitCall(pend.label, FALSE, TRUE, r.ok)>>]
           [] OTHER -> base

\* SS7Management::control for changeover/changeback (COO, COA, CBD, CBA) with
\* the address family,local,dpc,sls; slc and linksel take their defaults
SS7Management_control(q, id, cmd, t, dpc, sls, value, emergency, txOk, when) ==
    LET lbl == Label(t, dpc, RouterLocal, sls)
        txSls == (sls + 1) % ByteMod
        base == SnmResult(q, {})
        send(msu) == [base EXCEPT !.tx = <<TxCall(msu, lbl, txSls)>>, !.ret = Handled(txOk)]
        post(msu, interval, global) ==
            LET p == postpone(q, id, msu, lbl, txSls, interval, global, when, txOk) IN
            [base EXCEPT !.pending = p.pending, !.tx = p.tx, !.qacc = p.qacc,
                         !.posted = <<PostCall(msu, interval, global, txOk, p.ret)>>,
                         !.ret = Handled(p.ret)]
    IN
    IF cmd \in {"COO", "COA"}
    THEN IF emergency THEN send(Msu(lbl, IF cmd = "COO" THEN "ECO" ELSE "ECA", <<>>))
         ELSE IF t \notin {ITU, ANSI} THEN [base EXCEPT !.ret = Failure]
         ELSE LET msu == Msu(lbl, cmd, EncodePayload(t, value % (SeqMask + 1), sls)) IN
              IF cmd = "COA" THEN send(msu) ELSE post(msu, CooInterval, 0)
    ELSE IF t \notin {ITU, ANSI} THEN [base EXCEPT !.ret = Failure]
         ELSE LET msu == Msu(lbl, cmd, EncodePayload(t, value, sls)) IN
              IF cmd = "CBA" THEN send(msu) ELSE post(msu, CbdInterval, CbdGlobal)

(***************************************************************************)
(* Actions of the management entity                                        *)
(***************************************************************************)
\* room for one more pending message whose last deadline is deadline ms away
CanPost(deadline) ==
    /\ nPosted < MaxPosted
    /\ now + deadline + SnmTickStep <= MaxSnmTime

\* the record of an operation
SnmDone(op, type, label, code, seq, r) ==
    IF r.ret = Rejected THEN [NoSnm EXCEPT !.op = op, !.ret = Rejected] ELSE
    [NoSnm EXCEPT !.op = op, !.type = type, !.label = label, !.code = code,
                  !.seq = seq, !.ret = r.ret, !.tx = r.tx,
                  !.qacc = r.qacc, !.inhibits = r.inhibits, !.recovered = r.recovered,
                  !.final = r.final, !.nonfinal = r.nonfinal, !.removed = r.removed,
                  !.posted = r.posted]

\* the bytes of a received message after its heading code
RxCode(t, snmType, value, sls) ==
    IF snmType \in {"ECO", "ECA"} THEN <<>>
    ELSE IF t = ANSI THEN EncodePayload(t, value, sls) ELSE <<value>>

\* control(): an operator or notify() asks for a changeover or a changeback
SnmControl(cmd, t, dpc, sls, value, emergency, txOk) ==
    \E r \in {SS7Management_control(m_pending, nPosted + 1, cmd, t, dpc, sls, value,
                                   emergency, txOk, now)} :
        /\ r.posted # <<>> => CanPost(IF cmd = "COO" THEN CooInterval ELSE CbdGlobal)
        /\ m_pending' = r.pending
        /\ nPosted' = nPosted + Len(r.posted)
        /\ snm' = SnmDone("control", cmd, Label(t, dpc, RouterLocal, sls), <<value>>, -1, r)
        /\ UNCHANGED <<routerVars, now, inhibited, fnVars, thr>>

\* receivedMSU(): a changeover or changeback message arrives from network n
SnmReceivedMSU(n, t, opc, sls, snmType, value, netSeq, txOk) ==
    LET label == Label(t, RouterLocal, opc, sls)
        msu == Msu(label, snmType, RxCode(t, snmType, value, sls))
    IN  \E r \in {SS7Management_receivedMSU(m_pending, inhibited, nPosted + 1, n, msu, sls,
                                           netSeq, txOk, now)} :
        /\ r.posted # <<>> => CanPost(EcaGlobal)
        /\ m_pending' = r.pending
        /\ inhibited' = r.inhibited
        /\ nPosted' = nPosted + Len(r.posted)
        /\ snm' = SnmDone("receivedMSU", snmType, label, msu.code, netSeq, r)
        /\ UNCHANGED <<routerVars, now, fnVars, thr>>

\* timerTick(): the engine's tick at the current time
SnmTimerTick ==
    \E r \in {SS7Management_timerTick(m_pending, inhibited, now,
                                       SnmResult(m_pending, inhibited))} :
        /\ m_pending' = r.pending
        /\ inhibited' = r.inhibited
        /\ snm' = SnmDone("timerTick", "none", Label(ITU, 0, 0, 0), <<>>, -1, r)
        /\ UNCHANGED <<routerVars, now, nPosted, fnVars, thr>>

\* time passes
SnmAdvance ==
    /\ now + SnmTickStep <= MaxSnmTime
    /\ now' = now + SnmTickStep
    /\ snm' = [NoSnm EXCEPT !.op = "advance"]
    /\ UNCHANGED <<routerVars, m_pending, inhibited, nPosted, fnVars, thr>>

(***************************************************************************)
(* Threads of the management entity: one in timerTick, one in receivedMSU *)
(* with an acknowledgment, one in notify. mutex names the thread that     *)
(* holds the entity's mutex; each thread has the pending message it took  *)
(* out of the table; consumed and destroyed are history, by message id    *)
(***************************************************************************)
Scanners == {"receivedMSU", "notify"}

ThreadIdle == [pc |-> "idle", msg |-> <<>>, kind |-> "none", when |-> 0]

NoThreads ==
    [mutex |-> "free", tick |-> ThreadIdle, scan |-> [t \in Scanners |-> ThreadIdle],
     consumed |-> [id \in 1..MaxPosted |-> {}], destroyed |-> [id \in 1..MaxPosted |-> 0],
     raced |-> FALSE]

\* TelEngine::destruct of a message that consumer took care of
Consumed(t, msg, consumer) ==
    [t EXCEPT !.consumed[msg.id] = @ \cup {consumer}, !.destroyed[msg.id] = @ + 1]

\* the label of what node 2 sends over link 0, which notify builds as well
FromRemote == Label(ITU, RouterLocal, 2, 0)

\* the pending message a scan is after: the order or declaration that a COA or
\* CBA acknowledges (lines 440-455, 500-510), the ECA that notify converts
\* (lines 813-822)
Sought(kind, p) ==
    CASE kind = "COA" -> AckedOrder(p, FromRemote, RxCode(ITU, "COA", 5, 0))
      [] kind = "CBA" -> AckedDeclaration(p, Msu(FromRemote, "CBA", RxCode(ITU, "CBA", 5, 0)))
      [] OTHER -> Matches(p, FromRemote) /\ p.msu.snmType = "ECA"

\* a thread that holds the mutex is about to unlink a message of the table
Removing ==
    /\ thr.mutex \in Scanners
    /\ \E i \in 1..Len(m_pending) : Sought(thr.scan[thr.mutex].kind, m_pending[i])

\* variant: the message is put back as if the mutex were held
UnlockedAdd_serialized(q, msg, when, racing) == {Requeue(q, msg, when)}

\* timerTick, line 919: m_pending.add without the mutex. While another thread
\* unlinks a message under the mutex the two updates of the list race: the
\* message is linked in, or the other thread's update wins and it is lost
UnlockedAdd(q, msg, when, racing) ==
    IF racing THEN {Requeue(q, msg, when), q} ELSE {Requeue(q, msg, when)}

\* timerTick, lines 910-912: pop a due message under the mutex
ThreadTickPop ==
    /\ thr.tick.pc = "idle" /\ thr.mutex = "free"
    /\ TimerList_due(m_pending, now)
    /\ m_pending' = Tail(m_pending)
    /\ thr' = [thr EXCEPT !.tick = [ThreadIdle EXCEPT !.pc = "popped", !.msg = Head(m_pending),
                                                      !.when = now]]
    /\ snm' = [NoSnm EXCEPT !.op = "tickPop"]
    /\ UNCHANGED <<routerVars, now, inhibited, nPosted, fnVars>>

\* timerTick, lines 915-922: the final timeout of the popped message, or its
\* retransmission and return to the table
ThreadTickTimeout ==
    /\ thr.tick.pc = "popped"
    /\ LET msg == thr.tick.msg
           when == thr.tick.when
       IN  IF IsFinal(msg, when)
           THEN LET t == timeout(inhibited, msg) IN
                /\ inhibited' = t.inhibited
                /\ thr' = [Consumed(thr, msg, "timeout") EXCEPT !.tick = ThreadIdle]
                /\ snm' = [NoSnm EXCEPT !.op = "tickFinal", !.final = <<msg>>,
                                        !.tx = t.tx, !.inhibits = t.inhibits]
                /\ UNCHANGED m_pending
           ELSE /\ m_pending' \in UnlockedAdd(m_pending, msg, when, Removing)
                /\ thr' = [thr EXCEPT !.tick = ThreadIdle, !.raced = @ \/ Removing]
                /\ snm' = [NoSnm EXCEPT !.op = "tickRequeue", !.nonfinal = <<msg>>,
                                        !.tx = <<TxCall(msg.msu, msg.label, msg.txSls)>>]
                /\ UNCHANGED inhibited
    /\ UNCHANGED <<routerVars, now, nPosted, fnVars>>

\* lock() at lines 438, 498 and 811
ThreadLock(t, kind) ==
    /\ thr.scan[t].pc = "idle" /\ thr.mutex = "free"
    /\ thr' = [thr EXCEPT !.mutex = t, !.scan[t] = [ThreadIdle EXCEPT !.pc = "scan", !.kind = kind]]
    /\ snm' = [NoSnm EXCEPT !.op = "lock", !.type = kind]
    /\ UNCHANGED <<routerVars, now, m_pending, inhibited, nPosted, fnVars>>

\* the scan of the table, the removal of the first message found, unlock()
ThreadScan(t) ==
    /\ thr.scan[t].pc = "scan"
    /\ LET wanted(p) == Sought(thr.scan[t].kind, p)
           i == FirstIndex(m_pending, wanted)
       IN  IF i = 0
           THEN /\ thr' = [thr EXCEPT !.mutex = "free", !.scan[t] = ThreadIdle]
                /\ UNCHANGED m_pending
           ELSE /\ thr' = [thr EXCEPT !.mutex = "free", !.scan[t].pc = "found",
                                      !.scan[t].msg = m_pending[i]]
                /\ m_pending' = RemoveAt(m_pending, i)
    /\ snm' = [NoSnm EXCEPT !.op = "scan", !.type = thr.scan[t].kind]
    /\ UNCHANGED <<routerVars, now, inhibited, nPosted, fnVars>>

\* what is done with the message found, which is then destroyed: the link is
\* inhibited or uninhibited (lines 457-467, 513-521), the ECA is sent as a COA
\* or XCA (lines 824-842)
ThreadAct(t) ==
    /\ thr.scan[t].pc = "found"
    /\ LET msg == thr.scan[t].msg
           kind == thr.scan[t].kind
           r == IF kind = "COA" THEN SS7Router_inhibit(inhibited, msg.label, TRUE, FALSE)
                ELSE IF kind = "CBA" THEN SS7Router_inhibit(inhibited, msg.label, FALSE, TRUE)
                ELSE [ok |-> TRUE, inhibited |-> inhibited]
       IN  /\ inhibited' = r.inhibited
           /\ thr' = [Consumed(thr, msg, IF t = "notify" THEN "notify" ELSE "ack")
                         EXCEPT !.scan[t] = ThreadIdle]
           /\ snm' = [NoSnm EXCEPT !.op = "act", !.type = kind, !.removed = <<msg>>]
    /\ UNCHANGED <<routerVars, now, m_pending, nPosted, fnVars>>

\* the management entity at rest
InitSnmIdle ==
    /\ m_pending = <<>>
    /\ inhibited = [l \in Links |-> FALSE]
    /\ nPosted = 0
    /\ snm = NoSnm
    /\ thr = NoThreads

\* the management entity and the pure functions at rest
InitIdle ==
    /\ InitSnmIdle
    /\ arg = <<>>
    /\ res = <<>>

(***************************************************************************)
(* Specification of the MSU paths                                          *)
(***************************************************************************)

\* the networks were attached in the order n1, n2
InitLayer3 == <<"n1", "n2">>
InitLayer4 == {<<"mngmt", "u1">>}

InitRouter ==
    /\ m_layer4 \in InitLayer4
    /\ m_mngmt = IF "mngmt" \in Range(m_layer4) THEN "mngmt" ELSE NoL4
    /\ m_layer3 = InitLayer3
    /\ m_changes = Len(m_layer3) + Len(m_layer4)
    /\ m_rxMsu = 0 /\ m_txMsu = 0 /\ m_fwdMsu = 0
    /\ m_started = FALSE /\ m_phase2 = FALSE /\ m_checkRoutes = FALSE
    /\ m_isolate = Timer(IsolateInterval)
    /\ routes = InitRoutes
    /\ now = 0
    /\ rx = RxIdle /\ tx = TxIdle
    /\ nRx = 0 /\ nTx = 0 /\ nRouteOk = 0 /\ nRouteFwd = 0 /\ phase2Seen = FALSE
    /\ out = NoOut

InitCommon == InitRouter /\ InitIdle

Init ==
    /\ InitCommon
    /\ m_transfer \in BOOLEAN
    /\ m_sendUnavail \in BOOLEAN
    /\ m_sendProhibited \in BOOLEAN
    /\ m_restart = Timer(5000)
    /\ m_routeTest = Timer(0)
    /\ netOper = [n \in Nets |-> TRUE]

\* the inbound path, with the user-part list changing under the scan
Next ==
    \/ \E i \in RxInputs : ReceivedMSU_Enter(i[1], i[2])
    \/ \E h \in HandledMSU : ReceivedMSU_L4Return(h)
    \/ \E sls \in 0..1, acc \in SUBSET Nets : ReceivedMSU_PostScan(sls, acc)
    \/ ReceivedMSU_Count
    \/ \E s \in L4s : AttachL4(s)
    \/ \E s \in L4s : DetachL4(s)

Spec == Init /\ [][Next]_vars

\* a transfer point, where a user part that was called answers and the thread
\* in receivedMSU goes on running
InitRxLive ==
    /\ InitCommon
    /\ m_transfer = TRUE
    /\ m_sendUnavail = TRUE
    /\ m_sendProhibited = TRUE
    /\ m_restart = Timer(5000)
    /\ m_routeTest = Timer(0)
    /\ netOper = [n \in Nets |-> TRUE]

SpecRxLive ==
    /\ InitRxLive /\ [][Next]_vars
    /\ WF_vars(\E h \in HandledMSU : ReceivedMSU_L4Return(h))
    /\ WF_vars(\E sls \in 0..1, acc \in SUBSET Nets : ReceivedMSU_PostScan(sls, acc))
    /\ WF_vars(ReceivedMSU_Count)

(***************************************************************************)
(* Specification of the outbound path                                      *)
(***************************************************************************)
InitTx ==
    /\ InitCommon
    /\ m_transfer \in BOOLEAN
    /\ m_sendUnavail = TRUE
    /\ m_sendProhibited = TRUE
    /\ m_restart = Timer(5000)
    /\ m_routeTest = Timer(0)
    /\ netOper = [n \in Nets |-> TRUE]

NextTx ==
    \/ \E sif \in Services, dpc \in TxPointCodes, sls \in 0..1, acc \in SUBSET Nets :
          TransmitMSU(sif, dpc, sls, acc)
    \/ TransmitMSU_Count

SpecTx == InitTx /\ [][NextTx]_vars

(***************************************************************************)
(* Specification of the counters: a thread in receivedMSU and a thread in  *)
(* transmitMSU at the same time                                            *)
(***************************************************************************)
CountRxInputs == {<<1, "n1">>, <<4, "n1">>, <<4, NoNet>>, <<6, "n2">>}
CountServices == {SNM, ISUP}
CountPointCodes == {4, 6}

NextCount ==
    \/ \E i \in CountRxInputs : ReceivedMSU_Enter(i[1], i[2])
    \/ \E h \in HandledMSU : ReceivedMSU_L4Return(h)
    \/ \E acc \in SUBSET Nets : ReceivedMSU_PostScan(0, acc)
    \/ ReceivedMSU_Count
    \/ \E sif \in CountServices, dpc \in CountPointCodes, acc \in SUBSET Nets :
          TransmitMSU(sif, dpc, 0, acc)
    \/ TransmitMSU_Count

SpecCount == Init /\ [][NextCount]_vars

(***************************************************************************)
(* Specification of the restart machine: restart, disable, the timer tick, *)
(* network notifications, under a clock                                    *)
(***************************************************************************)
RestartLayer4 == {<<"mngmt", "u1">>, <<"u1">>}

InitRestart ==
    /\ m_transfer \in BOOLEAN
    /\ m_sendUnavail = TRUE
    /\ m_sendProhibited = TRUE
    /\ m_layer4 \in RestartLayer4
    /\ m_mngmt = IF "mngmt" \in Range(m_layer4) THEN "mngmt" ELSE NoL4
    /\ m_layer3 = InitLayer3
    /\ m_changes = Len(m_layer3) + Len(m_layer4)
    /\ m_rxMsu = 0 /\ m_txMsu = 0 /\ m_fwdMsu = 0
    /\ m_started = FALSE /\ m_phase2 = FALSE /\ m_checkRoutes = FALSE
    /\ m_restart \in {Timer(iv) : iv \in RestartIntervals}
    /\ m_isolate = Timer(IsolateInterval)
    /\ m_routeTest \in {Timer(iv) : iv \in RouteTestIntervals}
    /\ routes = InitRoutes
    /\ netOper \in [Nets -> BOOLEAN]
    /\ now = 0
    /\ rx = RxIdle /\ tx = TxIdle
    /\ nRx = 0 /\ nTx = 0 /\ nRouteOk = 0 /\ nRouteFwd = 0 /\ phase2Seen = FALSE
    /\ out = NoOut
    /\ InitIdle

NextRestart ==
    \/ Restart
    \/ Disable
    \/ TimerTick
    \/ \E n \in Nets \cup {NoNet}, sendTra \in BOOLEAN : Notify(n, sendTra)
    \/ \E n \in Nets : NetChange(n)
    \/ Advance

SpecRestart == InitRestart /\ [][NextRestart]_vars

(***************************************************************************)
(* Specification of the control surface: pause, resume and restart asked   *)
(* of a router while its restart machine runs                              *)
(***************************************************************************)
InitControl ==
    /\ InitRouter
    /\ InitIdle
    /\ m_transfer \in BOOLEAN
    /\ m_sendUnavail = TRUE
    /\ m_sendProhibited = TRUE
    /\ m_restart = Timer(5000)
    /\ m_routeTest = Timer(0)
    /\ netOper = [n \in Nets |-> TRUE]

NextControl ==
    \/ \E oper \in ControlOpers, cmpOk \in BOOLEAN : Control(oper, cmpOk)
    \/ Restart
    \/ Disable
    \/ TimerTick
    \/ \E n \in Nets \cup {NoNet}, sendTra \in BOOLEAN : Notify(n, sendTra)
    \/ \E n \in Nets : NetChange(n)
    \/ Advance

SpecControl == InitControl /\ [][NextControl]_vars

(***************************************************************************)
(* Specification of the route states: reports of adjacent nodes about the  *)
(* destinations 4 and 6 and network changes, with the router in any of its *)
(* phases (restart() at 0 with a restart interval of 5000, seen at 2500)   *)
(***************************************************************************)
RouterPhases == {"Disabled", "Restarting1", "Restarting2", "Started"}
SetDests == {4, 6}
SetSources == {2, 3}
SetStates == {Prohibited, Restricted, Congestion, Allowed}

InitRoutesSpec ==
    /\ m_transfer \in BOOLEAN
    /\ m_sendUnavail = TRUE
    /\ m_sendProhibited = TRUE
    /\ m_layer4 = <<"mngmt", "u1">>
    /\ m_mngmt = "mngmt"
    /\ m_layer3 = InitLayer3
    /\ m_changes = Len(m_layer3) + Len(m_layer4)
    /\ m_rxMsu = 0 /\ m_txMsu = 0 /\ m_fwdMsu = 0
    /\ \E ph \in RouterPhases :
          /\ ph = "Restarting2" => m_transfer
          /\ m_started = (ph = "Started")
          /\ m_phase2 = (ph = "Restarting2")
          /\ m_checkRoutes = (ph \in {"Restarting1", "Restarting2"})
          /\ m_restart = IF ph \in {"Restarting1", "Restarting2"}
                         THEN TimerStart(Timer(5000), 0) ELSE Timer(5000)
          /\ phase2Seen = (m_transfer /\ ph \in {"Restarting2", "Started"})
    /\ m_isolate = Timer(IsolateInterval)
    /\ m_routeTest = Timer(0)
    /\ routes = InitRoutes
    /\ netOper = [n \in Nets |-> TRUE]
    /\ now = 2500
    /\ rx = RxIdle /\ tx = TxIdle
    /\ nRx = 0 /\ nTx = 0 /\ nRouteOk = 0 /\ nRouteFwd = 0
    /\ out = NoOut
    /\ InitIdle

NextRoutes ==
    \/ \E n \in Nets : NetChange(n)
    \/ \E d \in SetDests, src \in SetSources, st \in SetStates :
          SetRouteSpecificState(d, src, st)

SpecRoutes == InitRoutesSpec /\ [][NextRoutes]_vars

(***************************************************************************)
(* Specification of a route's network list: networks attached to and       *)
(* detached from the routes to 4 and 6; n5 has no route to either, n4 and *)
(* n6 both have node 4 as an adjacent node                                 *)
(***************************************************************************)
AttachNets == {"n1", "n2", "n3", "n4", "n5", "n6"}
AttachDests == {4, 6}

NextAttach ==
    \/ \E d \in AttachDests, n \in AttachNets : RouteAttach(d, n)
    \/ \E d \in AttachDests, n \in AttachNets : RouteDetach(d, n)

SpecAttach == InitTx /\ [][NextAttach]_vars

(***************************************************************************)
(* Specification of the router's lists: networks and user parts attached  *)
(* to and detached from a router that was just constructed                 *)
(***************************************************************************)
\* objects handed to attach and detach: the networks, a null pointer, the router
L3Inputs == Nets \cup {NoNet, Self}

\* the routing table before any network was attached
EmptyRoutes == [d \in DOMAIN InitRoutes |-> [InitRoutes[d] EXCEPT !.networks = <<>>]]

InitLists ==
    /\ m_transfer \in BOOLEAN
    /\ m_sendUnavail = TRUE
    /\ m_sendProhibited = TRUE
    /\ m_layer3 = <<>>
    /\ m_layer4 = <<>>
    /\ m_mngmt = NoL4
    /\ m_changes = 0
    /\ m_rxMsu = 0 /\ m_txMsu = 0 /\ m_fwdMsu = 0
    /\ m_started = FALSE /\ m_phase2 = FALSE /\ m_checkRoutes = FALSE
    /\ m_restart = Timer(5000)
    /\ m_isolate = Timer(IsolateInterval)
    /\ m_routeTest = Timer(0)
    /\ routes = EmptyRoutes
    /\ netOper = [n \in Nets |-> TRUE]
    /\ now = 0
    /\ rx = RxIdle /\ tx = TxIdle
    /\ nRx = 0 /\ nTx = 0 /\ nRouteOk = 0 /\ nRouteFwd = 0 /\ phase2Seen = FALSE
    /\ out = NoOut
    /\ InitIdle

NextLists ==
    \/ \E n \in L3Inputs : AttachL3(n)
    \/ \E n \in L3Inputs : DetachL3(n)
    \/ \E s \in L4s : AttachL4(s)
    \/ \E s \in L4s : DetachL4(s)

SpecLists == InitLists /\ [][NextLists]_vars

(***************************************************************************)
(* Specification of the pending table under a clock: a changeover order    *)
(* or a changeback declaration is posted for the adjacent node 2, an       *)
(* emergency changeover order of node 2 arrives while the router knows no  *)
(* sequence, node 2 acknowledges, the engine ticks                         *)
(***************************************************************************)
InitSnm ==
    /\ InitCommon
    /\ m_transfer = TRUE
    /\ m_sendUnavail = TRUE
    /\ m_sendProhibited = TRUE
    /\ m_restart = Timer(5000)
    /\ m_routeTest = Timer(0)
    /\ netOper = [n \in Nets |-> TRUE]

NextSnm ==
    \/ \E cmd \in {"COO", "CBD"}, txOk \in BOOLEAN :
          SnmControl(cmd, ITU, 2, 0, 5, FALSE, txOk)
    \/ \E ty \in {"ECO", "COA", "CBA"} :
          SnmReceivedMSU("n1", ITU, 2, 0, ty, 5, -1, TRUE)
    \/ SnmTimerTick
    \/ SnmAdvance

SpecSnm == InitSnm /\ [][NextSnm]_vars

\* the same under a scheduler that keeps the clock and the tick going
SpecSnmLive == SpecSnm /\ WF_vars(SnmAdvance) /\ WF_vars(SnmTimerTick)

(***************************************************************************)
(* Specification of the changeover and changeback messages: orders and     *)
(* declarations posted for node 2, messages of every type arriving from    *)
(* the adjacent node 2 and from node 4, which is not adjacent, in the      *)
(* three families, at one instant                                          *)
(***************************************************************************)
SnmRemotes == {2, 4}
SnmValues == {5, 9}
SnmSequences == {-1, 42}

NextSnmRx ==
    \/ \E cmd \in {"COO", "COA", "CBD", "CBA"}, t \in {ITU, China}, e \in BOOLEAN :
          SnmControl(cmd, t, 2, 0, 5, e, TRUE)
    \/ \E t \in PcTypes, opc \in SnmRemotes, ty \in SnmTypes :
          \E v \in IF ty \in {"CBD", "CBA"} THEN SnmValues ELSE {5},
             seq \in IF ty \in ChangeoverOrders THEN SnmSequences ELSE {-1} :
             SnmReceivedMSU("n1", t, opc, 0, ty, v, seq, TRUE)
    \/ SnmReceivedMSU("n2", ITU, 2, 0, "COO", 5, -1, TRUE)

SpecSnmRx == InitSnm /\ [][NextSnmRx]_vars

(***************************************************************************)
(* Specification of the threads of the management entity: orders,         *)
(* declarations and postponed acknowledgments are posted for node 2 while  *)
(* timerTick, receivedMSU with a COA or CBA, and notify run side by side   *)
(***************************************************************************)
NextSnmThreads ==
    \/ \E cmd \in {"COO", "CBD"} : thr.mutex = "free" /\ SnmControl(cmd, ITU, 2, 0, 5, FALSE, TRUE)
    \/ thr.mutex = "free" /\ SnmReceivedMSU("n1", ITU, 2, 0, "ECO", 5, -1, TRUE)
    \/ ThreadTickPop
    \/ ThreadTickTimeout
    \/ \E kind \in {"COA", "CBA"} : ThreadLock("receivedMSU", kind)
    \/ ThreadLock("notify", "ECA")
    \/ \E t \in Scanners : ThreadScan(t)
    \/ \E t \in Scanners : ThreadAct(t)
    \/ SnmAdvance

SpecSnmThreads == InitSnm /\ [][NextSnmThreads]_vars

(***************************************************************************)
(* Specification of the changeover and changeback payloads: control()      *)
(* builds the MSU for a sequence or a code and a link code, parse() reads  *)
(* it back                                                                 *)
(***************************************************************************)
\* the router as configured, with no MSU in hand
InitFn ==
    /\ InitRouter
    /\ InitSnmIdle
    /\ m_transfer = TRUE
    /\ m_sendUnavail = TRUE
    /\ m_sendProhibited = TRUE
    /\ m_restart = Timer(5000)
    /\ m_routeTest = Timer(0)
    /\ netOper = [n \in Nets |-> TRUE]

\* the operations with a payload, the families that have an encoding, every
\* sequence (7 bits) or code (a byte), every link code (the sls of an ITU
\* label is left at 0: it is not in the payload)
PayloadArgs ==
    {a \in [cmd : {"COO", "COA", "CBD", "CBA"}, t : {ITU, ANSI},
            value : 0..(ByteMod - 1), slc : 0..(NibbleMod - 1)] :
        /\ a.cmd \in {"COO", "COA"} => a.value <= SeqMask
        /\ a.t = ITU => a.slc = 0}

NotParsed == [op |-> "none", type |-> "none", msg |-> SS7MsgSNM_parse("none", ITU, <<>>)]

InitPayload ==
    /\ InitFn
    /\ arg \in PayloadArgs
    /\ res = NotParsed

\* control() builds and sends the MSU, the receiver parses what was sent
ControlParse ==
    /\ res.op = "none"
    /\ \E r \in {SS7Management_control(<<>>, 1, arg.cmd, arg.t, 2, arg.slc, arg.value,
                                       FALSE, TRUE, now)} :
          LET msu == r.tx[1].msu IN
          res' = [op |-> "parse", type |-> msu.snmType,
                  msg |-> SS7MsgSNM_parse(msu.snmType, msu.label.type, msu.code)]
    /\ UNCHANGED <<routerVars, now, snmVars, arg>>

NextPayload == ControlParse

SpecPayload == InitPayload /\ [][NextPayload]_vars

(***************************************************************************)
(* ASNLib: the BER INTEGER codec. A 64-bit value is the sequence of its    *)
(* eight bytes, most significant first; a DataBlock is a sequence of bytes *)
(***************************************************************************)
\* sizeof(u_int64_t)
IntBytes == 8
\* sizeof(int)
SizeofInt == 4
\* the universal tag INTEGER
IntegerTag == 2
\* ASN_LONG_LENGTH
LongLength == 128
\* the error a decoder answers, a negative value
InvalidLengthOrTag == -1

\* the byte of order k (0: least significant) of a 64-bit value
ByteOf(v, k) == v[IntBytes - k]

\* encodeInteger: (uint16_t)(intVal >> ((size - 1) * 8 - 1)) & 0x1FF for
\* size >= 2: the top byte of a size-byte encoding and, below it, the top bit
\* of the byte that follows
Msb(v, size) == ByteOf(v, size - 1) * 2 + (ByteOf(v, size - 2) \div LongLength)

\* encodeInteger, the loop that drops leading bytes: it goes on while the
\* nine bits are 0 or 0xFF and more than one byte is left (at size 1 the
\* shift count is negative, and the test on size ends the loop whatever the
\* shift gave)
RECURSIVE IntegerSize(_, _)
IntegerSize(v, size) ==
    IF size - 1 >= 1 /\ Msb(v, size) \in {0, ByteMod - 1}
    THEN IntegerSize(v, size - 1)
    ELSE size

\* the bytes of a length, most significant first
RECURSIVE LengthBytes(_)
LengthBytes(len) ==
    IF len = 0 THEN <<>> ELSE Append(LengthBytes(len \div ByteMod), len % ByteMod)

\* ASNLib::buildLength
buildLength(data) ==
    IF Len(data) < LongLength THEN <<Len(data)>>
    ELSE <<LongLength + Len(LengthBytes(Len(data)))>> \o LengthBytes(Len(data))

\* ASNLib::encodeInteger(intVal,tagCheck = true)
encodeInteger(v) ==
    LET size == IntegerSize(v, IntBytes)
        contents == SubSeq(v, IntBytes - size + 1, IntBytes)
    IN  <<IntegerTag>> \o buildLength(contents) \o contents

\* decodeLength, length = (length << 8) + byte in an int of 32 bits: the
\* bits shifted out at the top are lost and bit 31 is the sign
ShiftIn(length, byte) ==
    LET low == length % (2^23) IN
    IF low >= 2^22 THEN (low - 2^23) * ByteMod + byte ELSE low * ByteMod + byte

\* DataBlock::operator[]: the byte at a position (from 1), 0 beyond the end
ByteAt(data, i) == IF i <= Len(data) THEN data[i] ELSE 0

\* decodeLength, the loop over the n bytes of a long length
RECURSIVE LongLengthValue(_, _)
LongLengthValue(data, n) ==
    IF n = 0 THEN 0 ELSE ShiftIn(LongLengthValue(data, n - 1), ByteAt(data, 1 + n))

\* ASNLib::decodeLength: the length and the data left after it
decodeLength(data) ==
    IF data[1] >= LongLength
    THEN LET n == data[1] - LongLength IN
         IF n = 0 \/ n > SizeofInt
         THEN [length |-> InvalidLengthOrTag, rest |-> data]
         ELSE [length |-> LongLengthValue(data, n),
               rest |-> SubSeq(data, 2 + n, Len(data))]
    ELSE [length |-> data[1], rest |-> Tail(data)]

\* ASNLib::decodeInteger(data,intVal,bytes,tagCheck = true): what it answers,
\* the value it stores and the data left; the value starts as all ones when
\* the first content byte has its top bit set and takes the bytes one by one
\* from below, the oldest falling off the top
decodeInteger(data) ==
    IF Len(data) < 2 \/ data[1] # IntegerTag
    THEN [ret |-> InvalidLengthOrTag, value |-> <<>>, rest |-> data]
    ELSE LET l == decodeLength(Tail(data)) IN
         IF l.length < 0 THEN [ret |-> l.length, value |-> <<>>, rest |-> l.rest]
         ELSE IF l.length > Len(l.rest)
         THEN [ret |-> InvalidLengthOrTag, value |-> <<>>, rest |-> l.rest]
         ELSE LET fill == IF l.length > 0 /\ l.rest[1] >= LongLength THEN ByteMod - 1 ELSE 0
                  shifted == [k \in 1..IntBytes |-> fill] \o SubSeq(l.rest, 1, l.length)
              IN  [ret |-> l.length,
                   value |-> SubSeq(shifted, l.length + 1, l.length + IntBytes),
                   rest |-> SubSeq(l.rest, l.length + 1, Len(l.rest))]

(***************************************************************************)
(* Specification of the INTEGER codec: a value is encoded and the bytes    *)
(* are decoded                                                             *)
(***************************************************************************)
\* bytes at the edges of the sign bit
ByteSamples == {0, 127, 128, 255}

NotDecoded == [op |-> "none", bytes |-> <<>>, ret |-> 0, value |-> <<>>, rest |-> <<>>]

InitInteger ==
    /\ InitFn
    /\ arg \in [1..IntBytes -> ByteSamples]
    /\ res = NotDecoded

\* encodeInteger(v), then decodeInteger on what it gave
EncodeDecode ==
    /\ res.op = "none"
    /\ \E bytes \in {encodeInteger(arg)} :
       \E d \in {decodeInteger(bytes)} :
          res' = [op |-> "decode", bytes |-> bytes, ret |-> d.ret, value |-> d.value,
                  rest |-> d.rest]
    /\ UNCHANGED <<routerVars, now, snmVars, arg>>

NextInteger == EncodeDecode

SpecInteger == InitInteger /\ [][NextInteger]_vars

(***************************************************************************)
(* ASNLib: the OBJECT IDENTIFIER codec. A dotted string is the sequence of *)
(* its numbers and dots, a number standing for its decimal digits          *)
(***************************************************************************)
\* the character '.' in a dotted string
Dot == -1
\* the universal tag OBJECT_ID
ObjectIdTag == 6
\* the byte that stands for the identifiers 1.3
IsoThree == 43
\* ASN_BIT8, and the base of a sub-identifier's bytes
Bit8 == 128

\* the dotted string of a list of sub-identifiers
RECURSIVE Dotted(_)
Dotted(ids) ==
    IF Len(ids) <= 1 THEN ids ELSE <<ids[1], Dot>> \o Dotted(Tail(ids))

\* String::split('.',false): the numbers between the dots
Split(str) == SelectSeq(str, LAMBDA c : c # Dot)

\* ASNObjId::toDataBlock, one sub-identifier: seven bits a byte, bit 8 set
\* on all bytes but the last
RECURSIVE LeadingBytes(_)
LeadingBytes(val) ==
    IF val = 0 THEN <<>> ELSE Append(LeadingBytes(val \div Bit8), (val % Bit8) + Bit8)

SubIdBytes(val) ==
    IF val < Bit8 THEN <<val>> ELSE Append(LeadingBytes(val \div Bit8), val % Bit8)

\* ASNObjId::toDataBlock / getIds: the bytes of all sub-identifiers
RECURSIVE IdsBytes(_)
IdsBytes(ids) ==
    IF ids = <<>> THEN <<>> ELSE SubIdBytes(Head(ids)) \o IdsBytes(Tail(ids))

toDataBlock(str) == IdsBytes(Split(str))

\* ASNLib::encodeOID(obj,tagCheck = true)
encodeOID(str) ==
    LET cont == toDataBlock(str)
        contents == IF ByteAt(cont, 1) = 1 /\ ByteAt(cont, 2) = 3
                    THEN <<IsoThree>> \o SubSeq(cont, 3, Len(cont))
                    ELSE cont
    IN  IF cont = <<>> THEN <<>>
        ELSE <<ObjectIdTag>> \o buildLength(contents) \o contents

\* decodeOID, the loop over the content bytes from byte j on
RECURSIVE DecodeIds(_, _, _, _)
DecodeIds(content, j, oid, longNo) ==
    IF j > Len(content) THEN oid
    ELSE IF j = 1 /\ content[j] = IsoThree
    THEN DecodeIds(content, j + 1, oid \o <<1, Dot, 3, Dot>>, longNo)
    ELSE LET sum == longNo + (content[j] % Bit8) IN
         IF content[j] >= Bit8
         THEN DecodeIds(content, j + 1, oid, sum * Bit8)
         ELSE DecodeIds(content, j + 1,
                        IF j # Len(content) THEN oid \o <<sum, Dot>> ELSE Append(oid, sum), 0)

\* ASNLib::decodeOID(data,obj,tagCheck = true): what it answers, the string
\* it stores and the data left
decodeOID(data) ==
    IF Len(data) < 2 \/ data[1] # ObjectIdTag
    THEN [ret |-> InvalidLengthOrTag, oid |-> <<>>, rest |-> data]
    ELSE LET l == decodeLength(Tail(data)) IN
         IF l.length < 0 THEN [ret |-> l.length, oid |-> <<>>, rest |-> l.rest]
         ELSE IF l.length > Len(l.rest)
         THEN [ret |-> InvalidLengthOrTag, oid |-> <<>>, rest |-> l.rest]
         ELSE [ret |-> l.length,
               oid |-> DecodeIds(SubSeq(l.rest, 1, l.length), 1, <<>>, 0),
               rest |-> SubSeq(l.rest, l.length + 1, Len(l.rest))]

(***************************************************************************)
(* Specification of the OBJECT IDENTIFIER codec: a dotted string is        *)
(* encoded and the bytes are decoded                                       *)
(***************************************************************************)
\* the longest identifier
MaxOidLen == 3

\* sub-identifiers of one, two and three bytes, 1 and 3, and 43
SubIdSamples == {0, 1, 3, 43, 127, 128, 840, 16384}

OidStrings ==
    {Dotted(ids) : ids \in UNION {[1..n -> SubIdSamples] : n \in 1..MaxOidLen}}

NoOid == [op |-> "none", bytes |-> <<>>, ret |-> 0, oid |-> <<>>, rest |-> <<>>]

InitOid ==
    /\ InitFn
    /\ arg \in OidStrings
    /\ res = NoOid

\* encodeOID(s), then decodeOID on what it gave
OidEncodeDecode ==
    /\ res.op = "none"
    /\ \E bytes \in {encodeOID(arg)} :
       \E d \in {decodeOID(bytes)} :
          res' = [op |-> "decode", bytes |-> bytes, ret |-> d.ret, oid |-> d.oid,
                  rest |-> d.rest]
    /\ UNCHANGED <<routerVars, now, snmVars, arg>>

NextOid == OidEncodeDecode

SpecOid == InitOid /\ [][NextOid]_vars

(***************************************************************************)
(* ASNLib: decodeBoolean and decodeUtf8, and the decoders on any input     *)
(***************************************************************************)
\* the universal tags BOOLEAN and UTF8_STR
BooleanTag == 1
Utf8Tag == 12
\* the error of a string that is not UTF-8, a negative value
ParseError == -2

\* ASNLib::decodeBoolean(data,val,tagCheck = true): what it answers, the
\* value it stores and the data left
decodeBoolean(data) ==
    IF Len(data) < 2 \/ data[1] # BooleanTag
    THEN [ret |-> InvalidLengthOrTag, value |-> FALSE, rest |-> data]
    ELSE LET l == decodeLength(Tail(data)) IN
         IF l.length < 0 THEN [ret |-> l.length, value |-> FALSE, rest |-> l.rest]
         ELSE IF l.length > Len(l.rest) \/ l.length # 1
         THEN [ret |-> InvalidLengthOrTag, value |-> FALSE, rest |-> l.rest]
         ELSE [ret |-> l.length, value |-> l.rest[1] # 0, rest |-> Tail(l.rest)]

\* String::lenUtf8(str) >= 0 for strings of the bytes sampled here: a byte of
\* 0x80 and more that no lead byte announces makes the string invalid
Utf8Valid(bytes) == \A k \in 1..Len(bytes) : bytes[k] < Bit8

\* ASNLib::decodeUtf8(data,str,tagCheck = true): what it answers, the bytes
\* of the string it stores and the data left
decodeUtf8(data) ==
    IF Len(data) < 2 \/ data[1] # Utf8Tag
    THEN [ret |-> InvalidLengthOrTag, value |-> <<>>, rest |-> data]
    ELSE LET l == decodeLength(Tail(data)) IN
         IF l.length < 0 THEN [ret |-> l.length, value |-> <<>>, rest |-> l.rest]
         ELSE IF l.length > Len(l.rest)
         THEN [ret |-> InvalidLengthOrTag, value |-> <<>>, rest |-> l.rest]
         ELSE LET var == SubSeq(l.rest, 1, l.length)
                  left == SubSeq(l.rest, l.length + 1, Len(l.rest))
              IN  IF ~Utf8Valid(var) THEN [ret |-> ParseError, value |-> <<>>, rest |-> left]
                  ELSE [ret |-> l.length, value |-> var, rest |-> left]

\* the longest input
MaxData == 4

\* the four tags, lengths in short and long form, content bytes
DataSamples == {0, BooleanTag, IntegerTag, ObjectIdTag, Utf8Tag,
                LongLength, LongLength + 1, LongLength + SizeofInt, ByteMod - 1}

DataBlocks == UNION {[1..n -> DataSamples] : n \in 0..MaxData}

NotCalled == [op |-> "none", ret |-> 0, rest |-> <<>>]

InitDecode ==
    /\ InitFn
    /\ arg \in DataBlocks
    /\ res = NotCalled

\* the record of a decoder's call
Decoded(op, d) == [op |-> op, ret |-> d.ret, rest |-> d.rest]

DecodeBoolean ==
    /\ res.op = "none"
    /\ \E d \in {decodeBoolean(arg)} : res' = Decoded("decodeBoolean", d)
    /\ UNCHANGED <<routerVars, now, snmVars, arg>>

DecodeInteger ==
    /\ res.op = "none"
    /\ \E d \in {decodeInteger(arg)} : res' = Decoded("decodeInteger", d)
    /\ UNCHANGED <<routerVars, now, snmVars, arg>>

DecodeOID ==
    /\ res.op = "none"
    /\ \E d \in {decodeOID(arg)} : res' = Decoded("decodeOID", d)
    /\ UNCHANGED <<routerVars, now, snmVars, arg>>

DecodeUtf8 ==
    /\ res.op = "none"
    /\ \E d \in {decodeUtf8(arg)} : res' = Decoded("decodeUtf8", d)
    /\ UNCHANGED <<routerVars, now, snmVars, arg>>

NextDecode ==
    \/ DecodeBoolean
    \/ DecodeInteger
    \/ DecodeOID
    \/ DecodeUtf8

SpecDecode == InitDecode /\ [][NextDecode]_vars

(***************************************************************************)
(* Properties of the inbound path (Spec)                                   *)
(***************************************************************************)
RxFinished == rx.pc \in {"count", "done"}

\* the DPC of the MSU in hand is the router's or the receiving network's own
RxDpcIsLocal ==
    \/ rx.dpc = RouterLocal
    \/ rx.src # NoNet /\ rx.dpc = NetLocal(rx.src)

\* every user part called answered Rejected, or none was there to call
RxAllRejected == rx.early = "none" /\ rx.unav = {} /\ ~rx.noaddr

\* a route to the DPC that is not Prohibited, with a network that takes the MSU
RxForwardable ==
    /\ rx.dpc \in DOMAIN routes
    /\ routes[rx.dpc].state # Prohibited
    /\ \E n \in Range(routes[rx.dpc].networks) : n \in rx.acc

\* C1: once a user part has answered Accepted or Failure, receivedMSU is over
\* and returns that disposition; the user parts after it are not called (the
\* scan stays on the one that answered) and no forwarding is attempted.
C1_EarlyReturn ==
    rx.early # "none" =>
        /\ rx.pc = "done"
        /\ rx.result = rx.early
        /\ ~rx.tried /\ rx.calls = {} /\ rx.slsTx = -1
        /\ rx.idx >= 1

\* Failure from the first of two user parts, for an MSU an STP could forward
C1_Witness ==
    /\ rx.early = Failure /\ rx.pc = "done" /\ rx.result = Failure
    /\ rx.idx = 1 /\ Len(m_layer4) = 2 /\ rx.chg = m_changes
    /\ m_transfer /\ rx.dpc = 4

\* C2: an MSU that every user part rejected (or that found none) and whose DPC
\* is not local: a node that does not transfer returns Failure and calls no
\* network; an STP returns Accepted when a route that is not Prohibited has a
\* network taking the MSU, and otherwise NoAddress if sendProhibited, else Failure.
C2_TransitBlocking ==
    (RxAllRejected /\ ~RxDpcIsLocal) =>
        /\ ~m_transfer => /\ rx.calls = {} /\ ~rx.tried /\ rx.pc # "count"
                          /\ rx.pc = "done" => rx.result = Failure
        /\ (m_transfer /\ RxFinished) =>
              IF RxForwardable
              THEN rx.pc = "count" \/ rx.result = Accepted
              ELSE /\ rx.pc = "done"
                   /\ rx.result = IF m_sendProhibited THEN NoAddress ELSE Failure

\* an STP forwarded an MSU that two user parts rejected
C2_Witness ==
    /\ m_transfer /\ rx.pc = "done" /\ rx.result = Accepted
    /\ RxAllRejected /\ ~RxDpcIsLocal /\ Len(m_layer4) = 2 /\ rx.calls # {}

\* an STP found no usable route and sendProhibited is off
C2_WitnessNoRoute ==
    /\ m_transfer /\ ~m_sendProhibited /\ rx.pc = "done" /\ rx.result = Failure
    /\ RxAllRejected /\ ~RxDpcIsLocal /\ rx.tried

\* C3 as stated: no user part answered Accepted or Failure and at least one
\* answered Unequipped or Inaccessible; then the result is one of the
\* Unequipped / Inaccessible answers given (Failure when sendUnavail is off) and
\* the MSU is not forwarded, whatever else was answered and in whatever order.
C3_Original ==
    (RxFinished /\ rx.early = "none" /\ rx.unav # {}) =>
        /\ rx.pc = "done"
        /\ rx.result \in (IF m_sendUnavail THEN rx.unav ELSE {Failure})
        /\ ~rx.tried

\* C3, amended: no user part answered Accepted or Failure and the last answer
\* other than Rejected was Unequipped or Inaccessible; then the result is that
\* answer (Failure when sendUnavail is off) and the MSU is not forwarded.
C3_LastUnavailable ==
    (RxFinished /\ rx.early = "none" /\ rx.lastNR \in {Unequipped, Inaccessible}) =>
        /\ rx.pc = "done"
        /\ rx.result = (IF m_sendUnavail THEN rx.lastNR ELSE Failure)
        /\ ~rx.tried /\ rx.calls = {}

\* NoAddress, then Inaccessible: Inaccessible is returned, by an STP that has a route
C3_Witness ==
    /\ rx.pc = "done" /\ rx.noaddr /\ rx.lastNR = Inaccessible
    /\ rx.result = Inaccessible /\ m_transfer /\ rx.dpc = 4

\* C4: an MSU whose DPC is the router's local point code or the receiving
\* network's is never handed to routeMSU, transfer or not; when the scan of the
\* user parts ends with no Accepted, Failure and no tentative Unequipped or
\* Inaccessible, the result is Unequipped if sendUnavail and Failure otherwise.
C4_LocalNotForwarded ==
    RxDpcIsLocal =>
        /\ ~rx.tried /\ rx.calls = {} /\ rx.pc # "count"
        /\ (rx.pc = "done" /\ rx.early = "none"
                /\ rx.lastNR \notin {Unequipped, Inaccessible}) =>
              rx.result = (IF m_sendUnavail THEN Unequipped ELSE Failure)

\* an STP, the DPC is the receiving network's local point code
C4_Witness ==
    /\ m_transfer /\ rx.pc = "done" /\ rx.dpc = 5 /\ rx.src = "n2"
    /\ rx.dpc # RouterLocal /\ rx.result = Unequipped /\ RxAllRejected

(***************************************************************************)
(* Properties of the outbound path (SpecTx)                                *)
(***************************************************************************)
TxFinished == tx.pc \in {"count", "done"}

TxMgmt == tx.sif \in {SNM, MTN, MTNS}

TxHasRoute == tx.dpc \in DOMAIN routes

\* a route the MSU in hand may use
TxEligible == TxHasRoute /\ (TxMgmt \/ routes[tx.dpc].state # Prohibited)

TxTaken == TxHasRoute /\ \E n \in Range(routes[tx.dpc].networks) : n \in tx.acc

\* the step is a transmitMSU that found no route it may use
TxNoRouteStep == nTx' = nTx + 1 /\ ~TxEligible'

\* C5: transmitMSU sends SNM, MTN and MTNS over a route in any state, every
\* other service only over a route that is not Prohibited; with no eligible
\* route it returns -1 and calls no network, and txMsu and fwdMsu stay as they were.
C5_State ==
    TxFinished =>
        /\ tx.calls # {} => TxEligible
        /\ (TxMgmt /\ TxTaken) => (tx.slsTx >= 0 /\ tx.calls # {})
        /\ ~TxEligible => (tx.pc = "done" /\ tx.result = -1 /\ tx.calls = {})

C5_Step ==
    TxNoRouteStep => (m_txMsu' = m_txMsu /\ m_fwdMsu' = m_fwdMsu /\ tx'.pc = "done")

C5_OutboundStates == []C5_State /\ [][C5_Step]_vars

\* a management MSU went out over a Prohibited route
C5_Witness ==
    /\ tx.pc = "done" /\ tx.sif = SNM /\ TxHasRoute
    /\ routes[tx.dpc].state = Prohibited /\ tx.result >= 0 /\ m_txMsu = 1

\* a user-part MSU found only a Prohibited route
C5_WitnessRefused ==
    /\ tx.pc = "done" /\ tx.sif = ISUP /\ TxHasRoute /\ TxTaken
    /\ routes[tx.dpc].state = Prohibited /\ tx.result = -1 /\ m_txMsu = 0

(***************************************************************************)
(* Properties of the counters (SpecCount)                                  *)
(***************************************************************************)
\* transmissions that succeeded and whose thread has not yet counted them
PendingTx == (IF rx.pc = "count" THEN 1 ELSE 0) + (IF tx.pc = "count" THEN 1 ELSE 0)

PendingFwd == IF rx.pc = "count" /\ rx.src # NoNet THEN 1 ELSE 0

\* C6: rxMsu is the number of receivedMSU invocations, txMsu the number of
\* successful routeMSU transmissions (less those whose thread is about to count
\* its own), fwdMsu the number of them that had a source network; fwdMsu never
\* exceeds txMsu and a transmitMSU never adds to fwdMsu.
C6_Counters ==
    /\ m_rxMsu = nRx
    /\ m_txMsu = nRouteOk - PendingTx
    /\ m_fwdMsu = nRouteFwd - PendingFwd
    /\ m_fwdMsu <= m_txMsu

\* both threads have routed an MSU, one of them in transit
C6_Witness ==
    /\ rx.pc = "done" /\ tx.pc = "done" /\ m_rxMsu = 1
    /\ m_txMsu = 2 /\ m_fwdMsu = 1 /\ nRouteOk = 2

\* the receiving thread is about to count while the transmitting one has counted
C6_WitnessPending ==
    /\ rx.pc = "count" /\ tx.pc = "done" /\ tx.result >= 0 /\ m_txMsu = 1 /\ nRouteOk = 2

(***************************************************************************)
(* Restart machine                                                         *)
(***************************************************************************)
Restarting == ~m_started /\ TimerStarted(m_restart)

\* C7: the restart phases are ordered. A started STP has been in the second
\* phase since its last restart(); a router that is not an STP is never in the
\* second phase; and the router only becomes Started in a timerTick taken
\* while it was restarting with the restart timer expired.
C7_PhaseOrder ==
    /\ [](m_transfer /\ m_started => phase2Seen)
    /\ [](~m_transfer => ~m_phase2)
    /\ [][(~m_started /\ m_started') =>
            /\ out'.op = "timerTick"
            /\ Restarting
            /\ TimerTimeout(m_restart, now)
            /\ (m_transfer => m_phase2)]_vars

C7_Witness ==
    /\ m_transfer /\ m_started /\ phase2Seen
    /\ out.op = "timerTick" /\ out.pre = "Restarting2" /\ out.branch = "complete"

C7_WitnessSN ==
    /\ ~m_transfer /\ m_started
    /\ out.op = "timerTick" /\ out.pre = "Restarting1" /\ out.branch = "complete"

\* C8: after restart(), whatever the state it was called in, the router is in
\* the first restart phase: not started, not in phase 2, route check requested,
\* restart timer running, isolation and route-test timers stopped; and
\* restart() returned true.
C8_Restart ==
    out.op = "restart" =>
        /\ ~m_started /\ ~m_phase2 /\ m_checkRoutes
        /\ TimerStarted(m_restart)
        /\ ~TimerStarted(m_isolate)
        /\ ~TimerStarted(m_routeTest)
        /\ FsmPhase(Fsm) = "Restarting1"
        /\ out.ret = TRUE

C8_Witness == out.op = "restart" /\ out.pre = "Isolating"

C8_WitnessStarted == out.op = "restart" /\ out.pre = "Started"

C8_WitnessPhase2 == out.op = "restart" /\ out.pre = "Restarting2"

\* C9: after disable(), whatever the state it was called in, the router is
\* disabled: not started, not in phase 2, no route check requested, and the
\* restart, isolation and route-test timers all stopped.
C9_Disable ==
    out.op = "disable" =>
        /\ ~m_started /\ ~m_phase2 /\ ~m_checkRoutes
        /\ ~TimerStarted(m_restart)
        /\ ~TimerStarted(m_isolate)
        /\ ~TimerStarted(m_routeTest)
        /\ FsmPhase(Fsm) = "Disabled"

C9_Witness == out.op = "disable" /\ out.pre = "Restarting1"

C9_WitnessStarted == out.op = "disable" /\ out.pre = "Started"

C9_WitnessIsolating == out.op = "disable" /\ out.pre = "Isolating"

\* the restart timer has expired for a router that is past the first phase
FinalExpiry == ~m_started /\ TimerTimeout(m_restart, now) /\ (~m_transfer \/ m_phase2)

\* what the completion of the restart leaves and has sent
Completed ==
    /\ m_started /\ ~m_phase2 /\ ~TimerStarted(m_restart)
    /\ \A t \in out.tra :
          /\ routes[t[3]].priority = 0
          /\ t[1] \in Range(routes[t[3]].networks)
          /\ netOper[t[1]]
    /\ out.l4 = NotifyAll("router")
    /\ TimerStarted(m_routeTest) <=> (m_routeTest.interval # 0)

\* C10 as stated: whenever the restart timer has finally expired, a timerTick
\* completes the restart.
C10_Original ==
    [][(FinalExpiry /\ out'.op = "timerTick") => Completed']_vars

\* C10: when the restart timer has finally expired (router that is not an STP,
\* or STP in phase 2) and the isolation timer has not, one timerTick makes the
\* router Started with phase 2 cleared and the restart timer stopped, sends TRA
\* only toward adjacent destinations over operational networks, notifies
\* (router,-1) to every attached user part, and leaves the route-test timer
\* running exactly when its interval is not zero.
C10_Completion ==
    [][(FinalExpiry /\ ~TimerTimeout(m_isolate, now) /\ out'.op = "timerTick")
          => Completed']_vars

C10_Witness ==
    /\ out.op = "timerTick" /\ out.branch = "complete"
    /\ out.tra # {} /\ out.l4 # <<>>
    /\ \E n \in Nets : ~netOper[n]
    /\ TimerStarted(m_routeTest)

C10_WitnessNoTest ==
    /\ out.op = "timerTick" /\ out.branch = "complete"
    /\ out.tra # {}
    /\ m_routeTest.interval = 0

(***************************************************************************)
(* Route states and their advertisement                                    *)
(***************************************************************************)
\* C11: a route advertisement is only emitted by an STP that is Started or in
\* the second restart phase, and never for the state Unknown; before the
\* router is Started only Prohibited is advertised; a router that is disabled
\* or in the first restart phase advertises nothing.
C11_Advertise ==
    /\ \A a \in out.adv :
          /\ m_transfer /\ (m_started \/ m_phase2)
          /\ a[1] # Unknown
          /\ ~m_started => a[1] = Prohibited
    /\ (~m_started /\ ~m_phase2) => out.adv = {}

C11_Witness ==
    /\ out.op = "setRouteSpecificState" /\ out.called
    /\ ~m_started /\ m_phase2
    /\ \E a \in out.adv : a[1] = Prohibited

C11_WitnessStarted ==
    /\ out.op = "setRouteSpecificState" /\ m_started
    /\ \E a \in out.adv : a[1] = Allowed

C11_WitnessSilent ==
    /\ out.op = "setRouteSpecificState" /\ out.called /\ out.adv = {}
    /\ m_transfer /\ ~m_started /\ m_phase2
    /\ routes[out.dest].networks = <<"n1">>

\* C12: split horizon. Every advertisement about a route goes to an adjacent
\* node (a priority-0 route other than the changed one) through a network of
\* that node which is operational and is not one of the changed route's own.
C12_SplitHorizon ==
    \A a \in out.adv :
        /\ a[4] # a[5]
        /\ routes[a[4]].priority = 0
        /\ a[2] \in Range(routes[a[4]].networks)
        /\ netOper[a[2]]
        /\ a[2] \notin Range(routes[a[5]].networks)

C12_Witness ==
    /\ out.op = "setRouteSpecificState"
    /\ out.adv # {}
    /\ \E n \in Nets : netOper[n] /\ n \in Range(routes[out.dest].networks)

(***************************************************************************)
(* Isolation                                                               *)
(***************************************************************************)
Isolated == \A d \in DOMAIN routes : ~RouteOperational(routes[d])

\* C13: after checkRoutes has run with the isolation timer not already
\* running, every route without an operational network is Prohibited, the
\* isolation timer runs exactly when no route has an operational network, and
\* in that case the emergency "resume" control went to the attached networks
\* other than the one the check was made for.
C13_CheckRoutes ==
    out.checked =>
        /\ \A d \in DOMAIN routes :
              ~RouteOperational(routes[d]) => routes[d].state = Prohibited
        /\ TimerStarted(m_isolate) <=> Isolated
        /\ Isolated => out.resume = Nets \ {out.net}
        /\ ~Isolated => out.resume = {}

C13_Witness ==
    /\ out.op = "notify" /\ out.checked
    /\ Isolated /\ TimerStarted(m_isolate)
    /\ out.resume # {} /\ out.net \in Nets

C13_WitnessPartial ==
    /\ out.checked /\ ~Isolated
    /\ \E d \in DOMAIN routes : ~RouteOperational(routes[d])

C13_WitnessTick ==
    /\ out.op = "timerTick" /\ out.checked /\ Isolated /\ out.resume = Nets

\* restart() has just been invoked, directly or by notify for a network that is up
RestartInvoked == out.op = "restart" \/ (out.op = "notify" /\ out.branch = "up")

\* C14 as stated: a timerTick that finds the isolation timer expired shuts the
\* router down: not started, not in phase 2, none of the isolation, restart and
\* route-test timers running; that tick completes no restart and sends no
\* route test; and the router is not started again before restart() is invoked.
C14_Original ==
    /\ []((out.op = "timerTick" /\ out.branch = "isolated") =>
            /\ ~m_started /\ ~m_phase2
            /\ ~TimerStarted(m_isolate)
            /\ ~TimerStarted(m_restart)
            /\ ~TimerStarted(m_routeTest)
            /\ out.tra = {} /\ out.test = {} /\ out.l4 = <<>>)
    /\ [][(~TimerStarted(m_restart) /\ TimerStarted(m_restart')) => RestartInvoked']_vars
    /\ [][(~m_started /\ m_started') => TimerStarted(m_restart)]_vars

\* C14: a timerTick that finds the isolation timer expired shuts the router
\* down: not started, not in phase 2, the isolation and restart timers stopped
\* (the route-test timer is left as it was); that tick completes no restart
\* and sends no route test; and the router is not started again before
\* restart() is invoked.
C14_Shutdown ==
    /\ []((out.op = "timerTick" /\ out.branch = "isolated") =>
            /\ ~m_started /\ ~m_phase2
            /\ ~TimerStarted(m_isolate)
            /\ ~TimerStarted(m_restart)
            /\ out.tra = {} /\ out.test = {} /\ out.l4 = <<>>)
    /\ [][(out'.op = "timerTick" /\ out'.branch = "isolated") =>
             m_routeTest' = m_routeTest]_vars
    /\ [][(~TimerStarted(m_restart) /\ TimerStarted(m_restart')) => RestartInvoked']_vars
    /\ [][(~m_started /\ m_started') => TimerStarted(m_restart)]_vars

C14_Witness ==
    /\ out.op = "timerTick" /\ out.branch = "isolated" /\ out.pre = "Isolating"
    /\ TimerStarted(m_routeTest)

\* C15: isolation recovery. A notify for an operational network stops a running
\* isolation timer and sends no emergency "resume"; the router is only shut
\* down by an isolation timer that is running, the timer only starts, and a
\* "resume" is only sent, in a checkRoutes that finds no operational route.
C15_Recovery ==
    /\ [][(TimerStarted(m_isolate) /\ out'.op = "notify" /\ out'.branch = "up") =>
            /\ ~TimerStarted(m_isolate')
            /\ out'.resume = {}
            /\ m_started' = m_started]_vars
    /\ [][(out'.op = "timerTick" /\ out'.branch = "isolated") =>
            TimerTimeout(m_isolate, now)]_vars
    /\ [][(~TimerStarted(m_isolate) /\ TimerStarted(m_isolate')) =>
            (out'.checked /\ Isolated')]_vars
    /\ [](out.resume # {} => (out.checked /\ Isolated))

C15_Witness ==
    /\ out.op = "notify" /\ out.branch = "up" /\ out.pre = "Isolating"
    /\ m_started /\ ~TimerStarted(m_isolate)

(***************************************************************************)
(* Aggregate route state                                                   *)
(***************************************************************************)
\* the highest of a set of route states
MaxState(S) == CHOOSE st \in S : \A o \in S : StateRank(o) <= StateRank(st)

\* the per-network states that count for a route after a report of the node
\* src: the reported state on the networks adjacent to src, and the states of
\* the other networks that are operational
CountedStates(r, src) ==
    {r.sub[n] : n \in {x \in Range(r.networks) :
                          getRoutePriority(x, src) = 0 \/ netOper[x]}}

\* C16: after a successful setRouteSpecificState the state of the router's route
\* is the highest (Prohibited < Unknown < Restricted < Congestion < Allowed) of
\* the per-network states of its operational networks, the reporting network
\* counting with the new state; and routeChanged was called exactly when that
\* state differs from the former one.
C16_Aggregate ==
    (out.op = "setRouteSpecificState" /\ out.ret) =>
        /\ routes[out.dest].state = MaxState(CountedStates(routes[out.dest], out.src))
        /\ out.called <=> (routes[out.dest].state # out.old)

(***************************************************************************)
(* The network list of a route                                             *)
(***************************************************************************)
\* the list is in ascending order of the networks' priorities for the destination
SortedNetworks(d) ==
    LET nets == routes[d].networks
    IN  \A i, j \in 1..Len(nets) :
            i < j => getRoutePriority(nets[i], d) <= getRoutePriority(nets[j], d)

\* a network is in the list at most once, and only with a route to the destination
DistinctNetworks(d) ==
    LET nets == routes[d].networks
    IN  /\ \A i, j \in 1..Len(nets) : nets[i] = nets[j] => i = j
        /\ \A i \in 1..Len(nets) : getRoutePriority(nets[i], d) # NoPriority

\* C17: after any sequence of attach and detach calls the network list of a route
\* is in ascending order of priority, the priority-0 networks first, with each
\* network at most once; and attaching a network that has no route to the
\* destination leaves the list as it was.
C17_NetworkList ==
    /\ [](\A d \in DOMAIN routes : SortedNetworks(d) /\ DistinctNetworks(d))
    /\ [](\A d \in DOMAIN routes : \A i \in 1..Len(routes[d].networks) :
             getRoutePriority(routes[d].networks[i], d) = 0 =>
                 \A j \in 1..i : getRoutePriority(routes[d].networks[j], d) = 0)
    /\ [][(out'.op = "attach" /\ getRoutePriority(out'.net, out'.dest) = NoPriority)
             => routes' = routes]_vars

C17_Witness ==
    /\ out.op = "attach" /\ out.dest = 4 /\ out.net = "n3"
    /\ Len(routes[4].networks) = 4
    /\ routes[4].networks[1] = "n4"

C17_WitnessNoRoute ==
    /\ out.op = "attach" /\ out.net = "n5" /\ Len(routes[out.dest].networks) = 3

(***************************************************************************)
(* Forwarding                                                              *)
(***************************************************************************)
\* C18: the route never hands an MSU to the network given as its source, so a
\* forwarded MSU is never sent back through the network it was received from.
C18_NoReflection ==
    (rx.tried /\ rx.src # NoNet) => rx.src \notin rx.calls

(***************************************************************************)
(* The scan of the user parts under changes of the list                    *)
(***************************************************************************)
\* C19: the changes counter is captured before each user part call; after a
\* call that did not end the scan, the scan starts again from the first user
\* part if the counter has changed and goes on with the next one otherwise;
\* and when receivedMSU gets to its post-scan rules every user part then in
\* the list has been called since the last change of the list.
C19_Rescan ==
    /\ [][(rx'.pc = "call" /\ rx' # rx) =>
            (rx'.chg = m_changes' /\ rx'.l4 = m_layer4'[rx'.idx])]_vars
    /\ [][(rx.pc = "call" /\ rx'.pc \in {"call", "post"} /\ rx' # rx) =>
            IF rx.chg # m_changes
            THEN IF m_layer4 = <<>> THEN rx'.pc = "post" ELSE rx'.pc = "call" /\ rx'.idx = 1
            ELSE IF rx.idx = Len(m_layer4) THEN rx'.pc = "post"
                 ELSE rx'.pc = "call" /\ rx'.idx = rx.idx + 1]_vars
    /\ [][(rx.pc # "post" /\ rx'.pc = "post") =>
            /\ Range(m_layer4') \subseteq rx'.offered
            /\ m_layer4' # <<>> => rx'.offChg = m_changes']_vars

C19_Witness ==
    /\ rx.pc = "post"
    /\ rx.offChg = m_changes /\ m_changes > 4
    /\ rx.offered = Range(m_layer4) /\ Len(m_layer4) = 2

(***************************************************************************)
(* Locks held across calls out of the router                               *)
(***************************************************************************)
\* C20: whenever the router calls a user part, a network or the management
\* entity, the calling thread holds neither the router mutex nor the
\* routing-table mutex: no operation makes a call with a mutex held.
C20_NoLockHeld == out.held = {}

(***************************************************************************)
(* The pending table of the management entity (SpecSnm)                    *)
(***************************************************************************)
\* C21: every read and every modification of the pending table is made with
\* the mutex of the management entity held.
C21_QueueLocked == \A a \in snm.qacc : a[2]

\* the MSU was handed to transmitMSU this many times by the last operation
TimesSent(msu) == Cardinality({i \in 1..Len(snm.tx) : snm.tx[i].msu = msu})

\* the message posted last is in the pending table
PostedPending(msu) == \E i \in 1..Len(m_pending) : m_pending[i].id = nPosted /\ m_pending[i].msu = msu

\* C22 as claimed: postpone transmits the MSU exactly once when interval > 0
\* and not at all when interval = 0, and in both cases the message is in the
\* pending table when postpone returns.
C22_Original ==
    snm.posted # <<>> =>
        LET p == snm.posted[1] IN
        /\ TimesSent(p.msu) = (IF p.interval > 0 THEN 1 ELSE 0)
        /\ PostedPending(p.msu)

\* C22: postpone transmits the MSU exactly once when interval > 0 and not at
\* all when interval = 0; the message is in the pending table when postpone
\* returns if interval = 0 or the transmission worked, and postpone answers
\* true; if the transmission failed the message is not in the table and
\* postpone answers false.
C22_Postpone ==
    snm.posted # <<>> =>
        LET p == snm.posted[1] IN
        /\ TimesSent(p.msu) = (IF p.interval > 0 THEN 1 ELSE 0)
        /\ PostedPending(p.msu) <=> (p.interval = 0 \/ p.txOk)
        /\ p.ret <=> (p.interval = 0 \/ p.txOk)

C22_Witness ==
    /\ snm.posted # <<>>
    /\ snm.posted[1].interval > 0 /\ ~snm.posted[1].txOk
    /\ ~snm.posted[1].ret
    /\ TimesSent(snm.posted[1].msu) = 1

C22_WitnessQueued ==
    /\ snm.posted # <<>>
    /\ snm.posted[1].interval = 0
    /\ PostedPending(snm.posted[1].msu)
    /\ snm.tx = <<>>

\* the pending message with this id, as a set
PendingById(id) == {i \in 1..Len(m_pending) : m_pending[i].id = id}

\* the last tick handled msg as a timeout that is not final: sent again on
\* its link and back in the table
Retransmitted(msg) ==
    /\ \E i \in 1..Len(snm.tx) : snm.tx[i] = TxCall(msg.msu, msg.label, msg.txSls)
    /\ TimesSent(msg.msu) = Cardinality({j \in 1..Len(snm.nonfinal) : snm.nonfinal[j].msu = msg.msu})
    /\ \E i \in PendingById(msg.id) : m_pending[i].rtx = msg.rtx + 1

\* C23 as claimed: a due message popped by timerTick gets its final timeout
\* (removed and destroyed) if and only if its global deadline has passed; in
\* every other case, a message without a global deadline included, it is sent
\* again once on its txSls and put back in the pending table.
C23_Original ==
    snm.op = "timerTick" =>
        /\ \A i \in 1..Len(snm.final) :
              /\ TimerTimeout(snm.final[i].global, now)
              /\ PendingById(snm.final[i].id) = {}
        /\ \A i \in 1..Len(snm.nonfinal) :
              /\ ~TimerTimeout(snm.nonfinal[i].global, now)
              /\ Retransmitted(snm.nonfinal[i])

\* C23: a due message popped by timerTick gets its final timeout (removed and
\* destroyed) if and only if it has no global deadline or its global deadline
\* has passed; in every other case it is sent again once on its txSls and put
\* back in the pending table. A changeover order posted with interval 1800 ms
\* and no global deadline gets its final timeout the first time it is popped.
C23_Timeouts ==
    snm.op = "timerTick" =>
        /\ \A i \in 1..Len(snm.final) :
              /\ ~TimerStarted(snm.final[i].global) \/ TimerTimeout(snm.final[i].global, now)
              /\ PendingById(snm.final[i].id) = {}
        /\ \A i \in 1..Len(snm.nonfinal) :
              /\ TimerStarted(snm.nonfinal[i].global)
              /\ ~TimerTimeout(snm.nonfinal[i].global, now)
              /\ Retransmitted(snm.nonfinal[i])

C23_Witness ==
    /\ snm.op = "timerTick"
    /\ \E i \in 1..Len(snm.final) :
          /\ snm.final[i].msu.snmType = "COO"
          /\ snm.final[i].rtx = 0
          /\ ~TimerStarted(snm.final[i].global)
          /\ PendingById(snm.final[i].id) = {}

C23_WitnessRetransmit ==
    /\ snm.op = "timerTick"
    /\ \E i \in 1..Len(snm.nonfinal) :
          /\ snm.nonfinal[i].msu.snmType = "CBD"
          /\ Retransmitted(snm.nonfinal[i])

\* C24: with the clock advancing and timerTick being called, every message
\* placed in the pending table is eventually out of it again (acknowledged or
\* timed out for good), and no message is sent again more than once: the
\* retransmissions of a message are bounded.
C24_Removed ==
    /\ \A id \in 1..MaxPosted : (PendingById(id) # {}) ~> (PendingById(id) = {})
    /\ [](\A i \in 1..Len(m_pending) : m_pending[i].rtx <= 1)

C24_Witness ==
    /\ snm.op = "timerTick"
    /\ \E i \in 1..Len(snm.final) :
          /\ snm.final[i].rtx = 1
          /\ PendingById(snm.final[i].id) = {}

C24_WitnessAcked ==
    /\ snm.op = "receivedMSU"
    /\ snm.removed # <<>>
    /\ PendingById(snm.removed[1].id) = {}

\* the last operation was the reception of a changeover order that passed
\* the address checks
OrderReceived ==
    /\ snm.op = "receivedMSU"
    /\ snm.type \in ChangeoverOrders
    /\ snm.ret # Rejected

\* the inhibit call of the last operation worked
InhibitWorked == snm.inhibits # <<>> /\ snm.inhibits[1].ok

\* the last operation sent exactly one changeover acknowledgment, on the
\* reversed label, that parses to sequence seq
AckSent(seq) ==
    /\ Len(snm.tx) = 1
    /\ snm.tx[1].label = Reversed(snm.label)
    /\ snm.tx[1].msu.label = Reversed(snm.label)
    /\ snm.tx[1].msu.snmType \in ChangeoverAcks
    /\ SS7MsgSNM_parse(snm.tx[1].msu.snmType, snm.label.type, snm.tx[1].msu.code).sequence = seq

\* the last operation made an ECA pending with a deadline of EcaGlobal ms
EcaPostponed ==
    /\ Len(snm.posted) = 1
    /\ snm.posted[1].msu = Msu(Reversed(snm.label), "ECA", <<>>)
    /\ \E i \in PendingById(nPosted) :
          /\ m_pending[i].msu = snm.posted[1].msu
          /\ m_pending[i].global = TimerStart(Timer(EcaGlobal), now)
          /\ FireTime(m_pending[i]) = now + EcaGlobal

\* C25: when a COO, XCO or ECO is received and marking the link Inactive
\* works, either the router reports a send sequence (>= 0) and a changeover
\* acknowledgment with that sequence is sent on the reversed label and
\* nothing is made pending, or it reports none and an ECA is made pending
\* with a deadline of 200 ms and not sent; when the inhibit fails no reply is
\* sent, no MSU is recovered and nothing is made pending.
C25_ChangeoverOrder ==
    OrderReceived =>
        IF InhibitWorked
        THEN IF snm.seq >= 0
             THEN AckSent(snm.seq) /\ snm.posted = <<>>
             ELSE EcaPostponed /\ snm.tx = <<>>
        ELSE snm.tx = <<>> /\ snm.recovered = <<>> /\ snm.posted = <<>>

\* the pending messages a step takes out of the table
Gone == {i \in 1..Len(m_pending) :
            \A j \in 1..Len(m_pending') : m_pending'[j].id # m_pending[i].id}

\* C26: the reception of a COA, XCA or ECA removes at most one pending
\* message, and only a COO, XCO or ECO whose label mirrors the received one
\* (pending OPC = received DPC, pending DPC = received OPC, same SLS); the
\* link is inhibited and MSUs are recovered only if such a message was found,
\* otherwise the pending table and the inhibit flags stay as they were.
C26_Acknowledged ==
    [][(snm'.op = "receivedMSU" /\ snm'.type \in ChangeoverAcks) =>
        /\ Cardinality(Gone) <= 1
        /\ \A i \in Gone :
              /\ m_pending' = RemoveAt(m_pending, i)
              /\ m_pending[i].msu.snmType \in ChangeoverOrders
              /\ m_pending[i].label.opc = snm'.label.dpc
              /\ m_pending[i].label.dpc = snm'.label.opc
              /\ m_pending[i].label.sls = snm'.label.sls
              /\ \A k \in 1..Len(snm'.inhibits) :
                    snm'.inhibits[k] = InhibitCall(m_pending[i].label, TRUE, FALSE,
                                                   snm'.inhibits[k].ok)
              /\ \A k \in 1..Len(snm'.recovered) :
                    snm'.recovered[k].link = m_pending[i].label
        /\ Gone = {} =>
              /\ m_pending' = m_pending
              /\ inhibited' = inhibited
              /\ snm'.inhibits = <<>>
              /\ snm'.recovered = <<>>
    ]_vars

\* an acknowledgment took one changeover order out of the table, marked its
\* link Inactive and left the other pending message in the table
C26_Witness ==
    /\ snm.op = "receivedMSU"
    /\ snm.type \in ChangeoverAcks
    /\ Len(snm.removed) = 1
    /\ snm.removed[1].msu.snmType \in ChangeoverOrders
    /\ Matches(snm.removed[1], snm.label)
    /\ PendingById(snm.removed[1].id) = {}
    /\ m_pending # <<>>
    /\ InhibitWorked
    /\ inhibited[<<"n1", snm.removed[1].label.sls>>]

\* an acknowledgment from a node no order was sent to changes nothing
C26_WitnessUnexpected ==
    /\ snm.op = "receivedMSU"
    /\ snm.type \in ChangeoverAcks
    /\ snm.removed = <<>>
    /\ \E i \in 1..Len(m_pending) : m_pending[i].msu.snmType \in ChangeoverOrders
    /\ snm.inhibits = <<>>

\* the Inactive flag of the link a label names
InactiveOn(inh, label) ==
    \E n \in AdjacentNets(label.dpc) :
        <<n, label.sls>> \in Links /\ inh[<<n, label.sls>>]

\* C27: a pending message that gets its final timeout completes locally: for
\* a COO, XCO or ECO the link is inhibited with Inactive set, for a CBD
\* Inactive is cleared, an ECA is transmitted, and the message is out of the
\* pending table; a tick that brings no final timeout changes no inhibit flag.
C27_FinalTimeout ==
    [][snm'.op = "timerTick" =>
        /\ \A i \in 1..Len(snm'.final) :
              LET msg == snm'.final[i] IN
              /\ \A j \in 1..Len(m_pending') : m_pending'[j].id # msg.id
              /\ msg.msu.snmType \in ChangeoverOrders =>
                    /\ \E k \in 1..Len(snm'.inhibits) :
                          snm'.inhibits[k] = InhibitCall(msg.label, TRUE, FALSE, TRUE)
                    /\ Len(snm'.final) = 1 => InactiveOn(inhibited', msg.label)
              /\ msg.msu.snmType = "CBD" =>
                    /\ \E k \in 1..Len(snm'.inhibits) :
                          snm'.inhibits[k] = InhibitCall(msg.label, FALSE, TRUE, TRUE)
                    /\ Len(snm'.final) = 1 => ~InactiveOn(inhibited', msg.label)
              /\ msg.msu.snmType = "ECA" =>
                    /\ \E k \in 1..Len(snm'.tx) :
                          snm'.tx[k] = TxCall(msg.msu, msg.label, msg.txSls)
                    /\ Len(snm'.final) = 1 => inhibited' = inhibited
        /\ snm'.final = <<>> => (inhibited' = inhibited /\ snm'.inhibits = <<>>)
    ]_vars

\* a changeover order nobody acknowledged timed out for good, nothing was
\* recovered and its link is Inactive
C27_Witness ==
    /\ snm.op = "timerTick"
    /\ Len(snm.final) = 1
    /\ snm.final[1].msu.snmType = "COO"
    /\ PendingById(snm.final[1].id) = {}
    /\ snm.inhibits = <<InhibitCall(snm.final[1].label, TRUE, FALSE, TRUE)>>
    /\ InactiveOn(inhibited, snm.final[1].label)
    /\ snm.recovered = <<>>

\* a changeback declaration nobody acknowledged timed out for good and its
\* link is not Inactive
C27_WitnessChangeback ==
    /\ snm.op = "timerTick"
    /\ Len(snm.final) = 1
    /\ snm.final[1].msu.snmType = "CBD"
    /\ snm.inhibits = <<InhibitCall(snm.final[1].label, FALSE, TRUE, TRUE)>>
    /\ ~InactiveOn(inhibited, snm.final[1].label)

\* a postponed ECA was sent at its deadline
C27_WitnessEca ==
    /\ snm.op = "timerTick"
    /\ Len(snm.final) = 1
    /\ snm.final[1].msu.snmType = "ECA"
    /\ snm.tx = <<TxCall(snm.final[1].msu, snm.final[1].label, snm.final[1].txSls)>>

\* a timeout that is not final
C27_WitnessNonFinal ==
    /\ snm.op = "timerTick"
    /\ snm.final = <<>>
    /\ snm.nonfinal # <<>>
    /\ InactiveOn(inhibited, snm.nonfinal[1].label)

\* the last operation answered a changeback declaration with one CBA on the
\* reversed label that carries the declaration's code bytes
DeclarationEchoed ==
    /\ Len(snm.tx) = 1
    /\ snm.tx[1].label = Reversed(snm.label)
    /\ snm.tx[1].msu.label = Reversed(snm.label)
    /\ snm.tx[1].msu.snmType = "CBA"
    /\ snm.tx[1].msu.code = snm.code

\* C28: a CBD for which clearing Inactive works is answered with a CBA on
\* the reversed label whose bytes after the type code are those of the CBD;
\* a CBA removes a pending message and clears Inactive only if that message
\* is a CBD of the same MSU length, with the same code bytes and a mirrored
\* label, and otherwise changes nothing.
C28_Changeback ==
    [][/\ (snm'.op = "receivedMSU" /\ snm'.type = "CBD" /\ InhibitWorked') =>
              /\ DeclarationEchoed'
              /\ ~InactiveOn(inhibited', Reversed(snm'.label))
       /\ (snm'.op = "receivedMSU" /\ snm'.type = "CBA") =>
              /\ Cardinality(Gone) <= 1
              /\ \A i \in Gone :
                    /\ m_pending' = RemoveAt(m_pending, i)
                    /\ m_pending[i].msu.snmType = "CBD"
                    /\ MsuLength(m_pending[i].msu) = MsuLength(Msu(snm'.label, "CBA", snm'.code))
                    /\ m_pending[i].msu.code = snm'.code
                    /\ m_pending[i].label.opc = snm'.label.dpc
                    /\ m_pending[i].label.dpc = snm'.label.opc
                    /\ m_pending[i].label.sls = snm'.label.sls
                    /\ \A k \in 1..Len(snm'.inhibits) :
                          snm'.inhibits[k] = InhibitCall(m_pending[i].label, FALSE, TRUE,
                                                         snm'.inhibits[k].ok)
              /\ Gone = {} =>
                    /\ m_pending' = m_pending
                    /\ inhibited' = inhibited
                    /\ snm'.inhibits = <<>>
    ]_vars

\* a CBA took the changeback declaration it answers out of the table and
\* cleared Inactive
C28_Witness ==
    /\ snm.op = "receivedMSU"
    /\ snm.type = "CBA"
    /\ Len(snm.removed) = 1
    /\ snm.removed[1].msu.snmType = "CBD"
    /\ snm.removed[1].msu.code = snm.code
    /\ PendingById(snm.removed[1].id) = {}
    /\ snm.inhibits = <<InhibitCall(snm.removed[1].label, FALSE, TRUE, TRUE)>>
    /\ ~InactiveOn(inhibited, snm.removed[1].label)

\* a CBA with other code bytes left the pending declaration alone
C28_WitnessOtherCode ==
    /\ snm.op = "receivedMSU"
    /\ snm.type = "CBA"
    /\ snm.removed = <<>>
    /\ \E i \in 1..Len(m_pending) :
          /\ m_pending[i].msu.snmType = "CBD"
          /\ Matches(m_pending[i], snm.label)
          /\ MsuLength(m_pending[i].msu) = MsuLength(Msu(snm.label, "CBA", snm.code))
          /\ m_pending[i].msu.code # snm.code

\* a changeback declaration was echoed
C28_WitnessEcho ==
    /\ snm.op = "receivedMSU"
    /\ snm.type = "CBD"
    /\ InhibitWorked
    /\ DeclarationEchoed
    /\ snm.code # <<>>

\* C29: for ITU and ANSI labels, the payload control() builds for a COO or
\* COA with a sequence of 0..127, or for a CBD or CBA with a code of 0..255,
\* is parsed back to the same sequence or code, and for ANSI to the same
\* link code (0..15) as well.
C29_EncodingMirrorsParsing ==
    res.op = "parse" =>
        /\ res.type = arg.cmd
        /\ arg.cmd \in {"COO", "COA"} => res.msg.sequence = arg.value
        /\ arg.cmd \in {"CBD", "CBA"} => res.msg.code = arg.value
        /\ arg.t = ANSI => res.msg.slc = arg.slc

\* the largest code with the largest link code in an ANSI declaration
C29_Witness ==
    /\ res.op = "parse"
    /\ arg = [cmd |-> "CBD", t |-> ANSI, value |-> ByteMod - 1, slc |-> NibbleMod - 1]
    /\ res.msg.code = ByteMod - 1
    /\ res.msg.slc = NibbleMod - 1

\* the largest sequence in an ITU order
C29_WitnessItu ==
    /\ res.op = "parse"
    /\ arg = [cmd |-> "COO", t |-> ITU, value |-> SeqMask, slc |-> 0]
    /\ res.msg.sequence = SeqMask

\* C30: for every 64-bit value v, decodeInteger applied to the bytes of
\* encodeInteger(v) stores v, sign-extended from the top bit of the first
\* content byte, and consumes exactly the bytes the encoder produced.
C30_IntegerRoundTrip ==
    res.op = "decode" =>
        /\ res.ret = Len(res.bytes) - 2
        /\ res.value = arg
        /\ res.rest = <<>>

\* the content bytes of an encoded INTEGER with a one-byte length
IntegerContent(bytes) == SubSeq(bytes, 3, Len(bytes))

\* the content begins with nine identical bits
NineIdentical(c) ==
    /\ Len(c) >= 2
    /\ \/ c[1] = 0 /\ c[2] < LongLength
       \/ c[1] = ByteMod - 1 /\ c[2] >= LongLength

\* the 64-bit values -1, 128 and -128
MinusOne == [k \in 1..IntBytes |-> ByteMod - 1]
Plus128 == [k \in 1..IntBytes |-> IF k = IntBytes THEN LongLength ELSE 0]
Minus128 == [k \in 1..IntBytes |-> IF k = IntBytes THEN LongLength ELSE ByteMod - 1]

\* C31: encodeInteger produces the shortest two's-complement content: it
\* never begins with nine identical bits, so -1 is encoded as 02 01 FF, 128
\* as 02 02 00 80 and -128 as 02 01 80.
C31_MinimalContent ==
    res.op = "decode" =>
        /\ ~NineIdentical(IntegerContent(res.bytes))
        /\ arg = MinusOne => res.bytes = <<IntegerTag, 1, ByteMod - 1>>
        /\ arg = Plus128 => res.bytes = <<IntegerTag, 2, 0, LongLength>>
        /\ arg = Minus128 => res.bytes = <<IntegerTag, 1, LongLength>>

\* the dotted string begins with the identifiers 1.3
StartsIso3(str) == Len(Split(str)) >= 2 /\ Split(str)[1] = 1 /\ Split(str)[2] = 3

\* C32: for every dotted string s, "1.3" itself, strings that do not begin
\* with 1.3 and strings with sub-identifiers of 128 and more included,
\* decodeOID gives s back from the bytes of encodeOID(s), and when s begins
\* with 1.3 the encoded content begins with the byte 0x2B.
C32_OidRoundTrip ==
    res.op = "decode" =>
        /\ res.oid = arg
        /\ res.rest = <<>>
        /\ StartsIso3(arg) => res.bytes[3] = IsoThree

\* C33: a decoder that answers a negative error code leaves the data as it
\* was before the call: no tag, length or content byte is consumed.
C33_NoConsumeOnError ==
    (res.op # "none" /\ res.ret < 0) => res.rest = arg

\* C34: with the component naming the router, the operation pause performs
\* disable(), and the operations resume and restart each perform restart(),
\* which leaves the router in Restarting1 with the restart timer running,
\* and answer true.
C34_Control ==
    (out.op = "control" /\ out.did # "component") =>
        /\ out.oper = "pause" =>
              /\ out.did = "disable"
              /\ out.ret
              /\ FsmPhase(Fsm) = "Disabled"
        /\ out.oper \in {"resume", "restart"} =>
              /\ out.did = "restart"
              /\ out.ret
              /\ FsmPhase(Fsm) = "Restarting1"
              /\ TimerStarted(m_restart)

\* the places of the networks that were in the list before the step, are in
\* it after the step and have the priority of the network net
Ties(d, net) ==
    {i \in 1..Len(routes'[d].networks) :
        /\ routes'[d].networks[i] # net
        /\ routes'[d].networks[i] \in Range(routes[d].networks)
        /\ getRoutePriority(routes'[d].networks[i], d) = getRoutePriority(net, d)}

\* C35 as claimed: a network attached to a route is placed after all the
\* networks of the same priority the list already has, priority 0 included.
C35_Original ==
    [][(out'.op = "attach" /\ out'.net \in Range(routes'[out'.dest].networks)) =>
          \A i \in Ties(out'.dest, out'.net) :
              i < IndexOf(routes'[out'.dest].networks, out'.net)
    ]_vars

\* C35: a network attached to a route is placed before all the networks of
\* the same priority the list already has, priority 0 included, and after
\* all the networks of a smaller priority.
C35_TiesFirst ==
    [][(out'.op = "attach" /\ out'.net \in Range(routes'[out'.dest].networks)) =>
          LET nets == routes'[out'.dest].networks
              pos == IndexOf(nets, out'.net)
          IN  /\ \A i \in Ties(out'.dest, out'.net) : pos < i
              /\ \A i \in 1..Len(nets) :
                    getRoutePriority(nets[i], out'.dest) < getRoutePriority(out'.net, out'.dest)
                        => i < pos
    ]_vars

\* a network was attached to a route that had one of the same priority, and
\* it stands before that one
C35_Witness ==
    /\ out.op = "attach"
    /\ out.net \in Range(routes[out.dest].networks)
    /\ \E i \in 1..Len(routes[out.dest].networks) :
          /\ routes[out.dest].networks[i] # out.net
          /\ getRoutePriority(routes[out.dest].networks[i], out.dest)
                = getRoutePriority(out.net, out.dest)
          /\ getRoutePriority(out.net, out.dest) > 0
          /\ IndexOf(routes[out.dest].networks, out.net) < i

\* the same between two networks of priority 0
C35_WitnessAdjacent ==
    /\ out.op = "attach"
    /\ routes[out.dest].networks # <<>>
    /\ routes[out.dest].networks[1] = out.net
    /\ getRoutePriority(out.net, out.dest) = 0
    /\ Len(routes[out.dest].networks) >= 2
    /\ getRoutePriority(routes[out.dest].networks[2], out.dest) = 0


(***************************************************************************)
(* C36: the changes counter never decreases; a step changes the networks  *)
(* list or the user-parts list exactly when it raises the counter, by one, *)
(* and it then appends one object that was not in the list or removes one *)
(* entry, so an attach of an attached object and a detach of one that is  *)
(* not attached leave counter and lists alone; no list holds an object    *)
(* twice                                                                   *)
(***************************************************************************)
NoDuplicates(list) == \A i, j \in 1..Len(list) : list[i] = list[j] => i = j

OneEntry(old, new) ==
    \/ \E x \in Nets \cup L4s : x \notin Range(old) /\ new = Append(old, x)
    \/ \E i \in 1..Len(old) : new = RemoveAt(old, i)

C36_Changes ==
    [][/\ m_changes' \in {m_changes, m_changes + 1}
       /\ m_changes' = m_changes => m_layer3' = m_layer3 /\ m_layer4' = m_layer4
       /\ m_changes' = m_changes + 1 =>
             \/ OneEntry(m_layer3, m_layer3') /\ m_layer4' = m_layer4
             \/ OneEntry(m_layer4, m_layer4') /\ m_layer3' = m_layer3
       /\ NoDuplicates(m_layer3') /\ NoDuplicates(m_layer4')]_vars

\* both lists are full after four attaches, a detach and an attach
C36_Witness ==
    /\ m_changes = 6 /\ Len(m_layer3) = 2 /\ Len(m_layer4) = 2

\* an attached network was attached again
C36_WitnessAgain ==
    /\ out.op = "attachL3" /\ ~out.ret /\ out.net \in Range(m_layer3) /\ m_changes > 0

\* a network that is not attached was detached
C36_WitnessAbsent ==
    /\ out.op = "detachL3" /\ ~out.ret /\ out.net \in Nets /\ m_changes > 0


(***************************************************************************)
(* C37: whatever restart, disable, timerTick, notify and control did, the  *)
(* router is never Started and in phase 2 at once, and while it is Started *)
(* its restart timer does not run                                          *)
(***************************************************************************)
C37_StartedExcludes ==
    /\ ~(m_started /\ m_phase2)
    /\ m_started => ~TimerStarted(m_restart)

\* a transfer point went through phase 2, was Started by a tick, and a further
\* operation ran on the Started router
C37_Witness ==
    /\ m_started /\ phase2Seen /\ out.op \in {"notify", "control"}

\* phase 2 is on while the restart timer runs
C37_WitnessPhase2 ==
    /\ m_phase2 /\ TimerStarted(m_restart) /\ ~m_started


(***************************************************************************)
(* C39: a notify about an operational network, on a router that is not    *)
(* Started, starts a restart when the restart timer does not run: after it *)
(* the timer runs, phase 2 is off and the route check is requested; when  *)
(* the timer already runs it is left as it is                              *)
(***************************************************************************)
C39_NotifyRestarts ==
    [][out'.op = "notify" /\ out'.net # NoNet /\ netOper[out'.net] /\ ~m_started =>
          IF TimerStarted(m_restart)
          THEN m_restart' = m_restart /\ m_phase2' = m_phase2 /\ ~m_started'
          ELSE /\ TimerStarted(m_restart') /\ m_restart'.timeout = now + m_restart.interval
               /\ ~m_phase2' /\ m_checkRoutes' /\ ~m_started']_vars

\* a router that was disabled or shut down by isolation, later than the
\* start of the run, restarted on a notify
C39_Witness ==
    /\ out.op = "notify" /\ out.branch = "up" /\ out.pre = "Disabled" /\ now > 0
    /\ TimerStarted(m_restart) /\ m_restart.timeout = now + m_restart.interval

\* the node was shut down by isolation: no flag, no timer
C39_WitnessIsolated ==
    /\ out.op = "timerTick" /\ out.branch = "isolated"
    /\ ~m_started /\ ~TimerStarted(m_restart) /\ ~TimerStarted(m_isolate)

\* a notify in phase 2 left the running timer alone
C39_WitnessRunning ==
    /\ out.op = "notify" /\ out.branch = "up" /\ out.pre = "Restarting2"
    /\ m_phase2 /\ TimerStarted(m_restart) /\ m_restart.timeout < now + m_restart.interval


(***************************************************************************)
(* C40: a receivedMSU whose user part calls return, under a bounded number *)
(* of list changes, comes to an end; it then has a disposition and does    *)
(* not hold the router mutex; and as long as the lists have not changed    *)
(* since it was entered no user part was called twice for the MSU          *)
(***************************************************************************)
C40_Terminates ==
    /\ [](rx.pc = "done" => rx.result \in HandledMSU /\ rx.locks = 0)
    /\ [](rx.pc # "idle" /\ m_changes = rx.chg0 => \A s \in L4s : rx.times[s] <= 1)
    /\ (rx.pc = "call" ~> rx.pc = "done")

\* both user parts were called once, the list did not change, the MSU was
\* forwarded
C40_Witness ==
    /\ rx.pc = "done" /\ rx.result = Accepted /\ rx.tried /\ m_changes = rx.chg0
    /\ \A s \in L4s : rx.times[s] = 1

\* the list changed during the call and a user part was called twice
C40_WitnessRescan ==
    /\ rx.pc = "done" /\ m_changes > rx.chg0 /\ \E s \in L4s : rx.times[s] = 2


(***************************************************************************)
(* C38: with receivedMSU, notify and timerTick on different threads, each  *)
(* pending message is taken care of by at most one of an acknowledgment,   *)
(* the conversion in notify and the final timeout, and it is destroyed     *)
(* exactly once: a message that was posted is in the table, or in the hands *)
(* of one thread, or was destroyed once                                    *)
(***************************************************************************)
InTable(id) == Cardinality({i \in 1..Len(m_pending) : m_pending[i].id = id})

InHands(id) ==
    Cardinality({t \in Scanners : thr.scan[t].pc = "found" /\ thr.scan[t].msg.id = id})
        + (IF thr.tick.pc = "popped" /\ thr.tick.msg.id = id THEN 1 ELSE 0)

C38_ConsumedOnce ==
    \A id \in 1..nPosted :
        /\ Cardinality(thr.consumed[id]) <= 1
        /\ thr.destroyed[id] <= 1
        /\ InTable(id) + InHands(id) + thr.destroyed[id] = 1

====
